---- MODULE Spec2Model ----
(***************************************************************************)
(* Model of the synonym overlay of the price-list application (app.py):    *)
(* the text normalizer, the similarity metrics, the two matcher passes,    *)
(* the match thresholds, and the two request handlers that change the      *)
(* "preise" and "synonyms" tables (feeddata_post, synonyms_upload); the    *)
(* discovery of the price sheet of a workbook, the pricing payload of a    *)
(* client, and the invoice flow (drafts, finalizing, one-time downloads).  *)
(*                                                                         *)
(* Python strings are sequences of one-character strings.  Scores and      *)
(* thresholds are Python floats; they are kept as integers counting        *)
(* thousandths (80.0 is 80000), with the float NaN and the infinities as   *)
(* separate values, because every score is a multiple of 0.01 that is at   *)
(* most multiplied once by 0.9.                                            *)
(***************************************************************************)
EXTENDS Integers, Sequences, FiniteSets, TLC

VARIABLES
    env,        \* process environment: MATCH_THRESHOLD, MATCH_THRESHOLD_RELAXED
    jellyfish,  \* TRUE iff "import jellyfish" succeeds in this deployment
    preise,     \* the "preise" table of pricing_sheet.db
    synonyms,   \* the "synonyms" table of pricing_sheet.db
    last,       \* what the last request did (its response and per-row trace)
    nIn,        \* argument of a call of _normalize_text
    nOut,       \* its result, Pending before the call returns
    thr,        \* the thresholds read by a call of the two getters, or NoThr
    requests,   \* number of requests served so far
    mIn,        \* arguments of a call of a matcher pass, a metric or the sheet discovery
    mOut,       \* the results of such calls; done holds the calls that returned
    two_phase,       \* TRUE iff the two-phase flow and its webhooks are configured
    draft_invoices,  \* the "draft_invoices" table of the invoices database
    invoices,        \* the invoice records of invoices_meta.json, newest first
    tmp_files,       \* the invoice ids with a copy in DOWNLOAD_TMP_DIR
    reqs             \* the /download-once requests and how far each has come

\* The state of the price lists and of the calls on their own.
pricing == <<env, jellyfish, preise, synonyms, last, nIn, nOut, thr, requests, mIn, mOut>>

\* The state of the invoice flow.
invoicing == <<two_phase, draft_invoices, invoices, tmp_files, reqs>>

vars == <<pricing, invoicing>>

----------------------------------------------------------------------------
(* Python values *)

\* Python's None where a str is expected; no string of the model equals it.
None == <<"None">>

\* The outcome of a call that raised instead of returning.
Raised == <<"raised">>

\* A call that has not returned yet.
Pending == <<"pending">>

\* bool(s) of a str-or-None value: None and "" are falsy.
Truthy(s) == s # None /\ s # <<>>

Min(a, b) == IF a < b THEN a ELSE b

Max(a, b) == IF a > b THEN a ELSE b

RECURSIVE Concat(_)
\* "".join(parts)
Concat(parts) ==
    IF parts = <<>> THEN <<>> ELSE Head(parts) \o Concat(Tail(parts))

\* The set of elements of a sequence.
Range(s) == {s[i] : i \in 1..Len(s)}

----------------------------------------------------------------------------
(* _normalize_text, app.py 1877-1895 *)

Whitespace == {" ", "\t"}

Digits == {"0", "1", "2", "3", "4", "5", "6", "7", "8", "9"}

\* str.lower() on the characters of the model that have a lowercase form.
LowerChar(ch) ==
    CASE ch = "A" -> "a" [] ch = "B" -> "b" [] ch = "C" -> "c" [] ch = "D" -> "d"
      [] ch = "E" -> "e" [] ch = "F" -> "f" [] ch = "G" -> "g" [] ch = "H" -> "h"
      [] ch = "I" -> "i" [] ch = "J" -> "j" [] ch = "K" -> "k" [] ch = "L" -> "l"
      [] ch = "M" -> "m" [] ch = "N" -> "n" [] ch = "O" -> "o" [] ch = "P" -> "p"
      [] ch = "Q" -> "q" [] ch = "R" -> "r" [] ch = "S" -> "s" [] ch = "T" -> "t"
      [] ch = "U" -> "u" [] ch = "V" -> "v" [] ch = "W" -> "w" [] ch = "X" -> "x"
      [] ch = "Y" -> "y" [] ch = "Z" -> "z"
      [] ch = "Ä" -> "ä" [] ch = "Ö" -> "ö" [] ch = "Ü" -> "ü"
      [] ch = "É" -> "é" [] ch = "È" -> "è"
      [] OTHER -> ch

\* The combining marks the decompositions below produce
\* (U+0308 diaeresis, U+0301 acute, U+0300 grave).
CombiningMarks == {"U+0308", "U+0301", "U+0300"}

\* unicodedata.normalize('NFKD', ch) of one character.
DecomposeChar(ch) ==
    CASE ch = "ä" -> <<"a", "U+0308">>
      [] ch = "ö" -> <<"o", "U+0308">>
      [] ch = "ü" -> <<"u", "U+0308">>
      [] ch = "é" -> <<"e", "U+0301">>
      [] ch = "è" -> <<"e", "U+0300">>
      [] ch = "à" -> <<"a", "U+0300">>
      [] OTHER -> <<ch>>

\* The separators line 1889 replaces by a space ('/' is not among them).
Punctuation ==
    {",", ";", ":", ".", "(", ")", "[", "]", "{", "}", "\\", "-", "_", "+",
     "*", "|", "~", "!", "?", "'", "\""}

RECURSIVE LStrip(_)
LStrip(s) ==
    IF s # <<>> /\ Head(s) \in Whitespace THEN LStrip(Tail(s)) ELSE s

RECURSIVE RStrip(_)
RStrip(s) ==
    IF s # <<>> /\ s[Len(s)] \in Whitespace
    THEN RStrip(SubSeq(s, 1, Len(s) - 1))
    ELSE s

\* str.strip()
Strip(s) == RStrip(LStrip(s))

\* str.lower()
Lower(s) == [i \in 1..Len(s) |-> LowerChar(s[i])]

\* unicodedata.normalize('NFKD', s)
NFKD(s) == Concat([i \in 1..Len(s) |-> DecomposeChar(s[i])])

\* "".join(ch for ch in s if not unicodedata.combining(ch))
StripCombining(s) == SelectSeq(s, LAMBDA ch : ch \notin CombiningMarks)

\* s.replace(old, new) for a one-character old and a string new.
ReplaceChar(s, old, new) ==
    Concat([i \in 1..Len(s) |-> IF s[i] = old THEN new ELSE <<s[i]>>])

RECURSIVE FractionSub(_)
\* re.sub(r"(\d)[_\-](\d)", r"\1/\2", s): leftmost matches that do not
\* overlap, the scan resuming after the second digit of a match.
FractionSub(s) ==
    IF s = <<>> THEN <<>>
    ELSE IF Len(s) >= 3 /\ s[1] \in Digits /\ s[2] \in {"_", "-"} /\ s[3] \in Digits
    THEN <<s[1], "/", s[3]>> \o FractionSub(SubSeq(s, 4, Len(s)))
    ELSE <<s[1]>> \o FractionSub(Tail(s))

\* The loop of lines 1889-1890.
PunctToSpace(s) == [i \in 1..Len(s) |-> IF s[i] \in Punctuation THEN " " ELSE s[i]]

RECURSIVE Split(_)
\* str.split(): the maximal runs of non-whitespace characters.
Split(s) ==
    LET t == LStrip(s)
        RECURSIVE WordEnd(_)
        WordEnd(i) == IF i < Len(t) /\ t[i + 1] \notin Whitespace
                      THEN WordEnd(i + 1) ELSE i
    IN  IF t = <<>> THEN <<>>
        ELSE LET e == WordEnd(1)
             IN  <<SubSeq(t, 1, e)>> \o Split(SubSeq(t, e + 1, Len(t)))

RECURSIVE JoinSpace(_)
\* " ".join(words)
JoinSpace(words) ==
    IF words = <<>> THEN <<>>
    ELSE IF Len(words) = 1 THEN words[1]
    ELSE words[1] \o <<" ">> \o JoinSpace(Tail(words))

\* Line 1894: the umlaut spellings.
UmlautSpelling(s) ==
    ReplaceChar(ReplaceChar(ReplaceChar(s, "ä", <<"a", "e">>),
                            "ö", <<"o", "e">>), "ü", <<"u", "e">>)

\* Line 1880 without the "or": None.strip() raises AttributeError.
OrEmptyDropped(s) == IF s = None THEN Raised ELSE s

\* (s or "") of line 1880.
OrEmpty(s) == IF Truthy(s) THEN s ELSE <<>>

\* Lines 1882-1883.
StripAccents(s) == StripCombining(NFKD(s))

\* _normalize_text(s)
NormalizeText(s) ==
    LET s0 == OrEmpty(s)
    IN  IF s0 = Raised THEN Raised
        ELSE UmlautSpelling(
               JoinSpace(Split(
                 PunctToSpace(
                   FractionSub(
                     ReplaceChar(StripAccents(Lower(Strip(s0))), "ß", <<"s", "s">>))))))

----------------------------------------------------------------------------
(* Scores: Python floats as thousandths *)

\* A Python float: a finite number of thousandths, NaN, or an infinity.
Num(v) == [k |-> "num", v |-> v]

NaN == [k |-> "nan", v |-> 0]

PosInf == [k |-> "inf", v |-> 0]

NegInf == [k |-> "-inf", v |-> 0]

\* a < b on floats: every ordered comparison with NaN is False.
FloatLt(a, b) ==
    IF a.k = "nan" \/ b.k = "nan" THEN FALSE
    ELSE IF a.k = "inf" \/ b.k = "-inf" THEN FALSE
    ELSE IF a.k = "-inf" \/ b.k = "inf" THEN TRUE
    ELSE a.v < b.v

\* a > b on floats.
FloatGt(a, b) == FloatLt(b, a)

\* a >= b on floats.
FloatGe(a, b) == a.k # "nan" /\ b.k # "nan" /\ ~FloatLt(a, b)

\* max(a, b) of Python: b only when b > a.
PyMax(a, b) == IF FloatGt(b, a) THEN b ELSE a

\* x - 10 on floats.
Minus10(x) == IF x.k = "num" THEN Num(x.v - 10000) ELSE x

\* n/d rounded to the nearest integer, ties to even (Python's round), n >= 0.
RoundDiv(n, d) ==
    LET q == n \div d
        r == n % d
    IN  IF 2 * r < d THEN q
        ELSE IF 2 * r > d THEN q + 1
        ELSE IF q % 2 = 0 THEN q ELSE q + 1

\* round((n/d) * 100, 2) as thousandths.
Percent(n, d) == 10 * RoundDiv(10000 * n, d)

----------------------------------------------------------------------------
(* _fuzzy_ratio, app.py 1898-1901: difflib.SequenceMatcher(None, a, b).ratio() *)

RECURSIVE MatchRun(_, _, _, _, _, _)
\* Length of the common run of a[i..ahi] and b[j..bhi] starting at i and j.
MatchRun(a, b, i, j, ahi, bhi) ==
    IF i <= ahi /\ j <= bhi /\ a[i] = b[j]
    THEN 1 + MatchRun(a, b, i + 1, j + 1, ahi, bhi)
    ELSE 0

\* SequenceMatcher.find_longest_match: the longest common block of a[alo..ahi]
\* and b[blo..bhi]; of the longest, the one starting earliest in a, and of
\* those the one starting earliest in b.  <<i, j, size>>.
LongestMatch(a, b, alo, ahi, blo, bhi) ==
    LET pairs == (alo..ahi) \X (blo..bhi)
        size == CHOOSE k \in 0..(ahi - alo + 1) :
                  /\ \A p \in pairs : MatchRun(a, b, p[1], p[2], ahi, bhi) <= k
                  /\ k = 0 \/ \E p \in pairs : MatchRun(a, b, p[1], p[2], ahi, bhi) = k
        besti == CHOOSE i \in alo..ahi :
                  /\ \E j \in blo..bhi : MatchRun(a, b, i, j, ahi, bhi) = size
                  /\ \A i2 \in alo..(i - 1) :
                        \A j \in blo..bhi : MatchRun(a, b, i2, j, ahi, bhi) # size
        bestj == CHOOSE j \in blo..bhi :
                  /\ MatchRun(a, b, besti, j, ahi, bhi) = size
                  /\ \A j2 \in blo..(j - 1) : MatchRun(a, b, besti, j2, ahi, bhi) # size
    IN  IF size = 0 THEN <<alo, blo, 0>> ELSE <<besti, bestj, size>>

RECURSIVE MatchedChars(_, _, _, _, _, _)
\* Sum of the sizes of SequenceMatcher.get_matching_blocks(): the longest
\* block, then the blocks to its left and to its right.
MatchedChars(a, b, alo, ahi, blo, bhi) ==
    IF alo > ahi \/ blo > bhi THEN 0
    ELSE LET m == LongestMatch(a, b, alo, ahi, blo, bhi)
         IN  IF m[3] = 0 THEN 0
             ELSE m[3]
                  + MatchedChars(a, b, alo, m[1] - 1, blo, m[2] - 1)
                  + MatchedChars(a, b, m[1] + m[3], ahi, m[2] + m[3], bhi)

\* _fuzzy_ratio(a, b); ratio() of two empty strings is 1.0.
FuzzyRatio(a, b) ==
    LET na == NormalizeText(a)
        nb == NormalizeText(b)
    IN  IF Len(na) + Len(nb) = 0 THEN 100000
        ELSE Percent(2 * MatchedChars(na, nb, 1, Len(na), 1, Len(nb)),
                     Len(na) + Len(nb))

----------------------------------------------------------------------------
(* _tokenize and _token_set_score, app.py 1904-1960 *)

\* The values of token_map, lines 1907-1939.
w_alpage == <<"a", "l", "p", "a", "g", "e">>

w_block == <<"b", "l", "o", "c", "k">>

w_karton == <<"k", "a", "r", "t", "o", "n">>

w_mild == <<"m", "i", "l", "d">>

w_mildwurzig == <<"m", "i", "l", "d", "w", "u", "r", "z", "i", "g">>

w_months == <<"m", "o", "n", "t", "h", "s">>

w_portion == <<"p", "o", "r", "t", "i", "o", "n">>

w_reserve == <<"r", "e", "s", "e", "r", "v", "e">>

w_rolls == <<"r", "o", "l", "l", "s">>

w_square == <<"s", "q", "u", "a", "r", "e">>

w_wedge == <<"w", "e", "d", "g", "e">>

w_wheel == <<"w", "h", "e", "e", "l">>

\* token_map.get(t, t) with an empty token_map.
TokenMapEmpty(t) == t

\* token_map.get(t, t), lines 1907-1942.
TokenMapGet(t) ==
    CASE t = <<"l", "a", "i", "b">> -> w_wheel
      [] t = <<"r", "a", "d">> -> w_wheel
      [] t = <<"w", "h", "e", "e", "l">> -> w_wheel
      [] t = <<"m", "e", "u", "l", "e">> -> w_wheel
      [] t = <<"k", "a", "r", "t">> -> w_karton
      [] t = <<"k", "a", "r", "t", "o", "n">> -> w_karton
      [] t = <<"k", "a", "r", "t", "o", "n", "a", "g", "e">> -> w_karton
      [] t = <<"k", "e", "i", "l">> -> w_wedge
      [] t = <<"w", "e", "d", "g", "e">> -> w_wedge
      [] t = <<"b", "l", "o", "c">> -> w_block
      [] t = <<"b", "l", "o", "c", "s">> -> w_block
      [] t = <<"b", "l", "o", "c", "k">> -> w_block
      [] t = <<"e", "c", "k", "i", "g">> -> w_square
      [] t = <<"s", "q", "u", "a", "r", "e">> -> w_square
      [] t = <<"r", "u", "n", "d">> -> w_wheel
      [] t = <<"m", "i", "l", "d", "-", "w", "u", "r", "z", "i", "g">> -> w_mildwurzig
      [] t = <<"m", "i", "l", "d", "-", "w", "ü", "r", "z", "i", "g">> -> w_mildwurzig
      [] t = <<"m", "i", "l", "d", "w", "u", "r", "z", "i", "g">> -> w_mildwurzig
      [] t = <<"d", "o", "u", "x">> -> w_mild
      [] t = <<"r", "e", "s", "e", "r", "v", "e">> -> w_reserve
      [] t = <<"a", "l", "p", "a", "g", "e">> -> w_alpage
      [] t = <<"m", "o", "i", "s">> -> w_months
      [] t = <<"m", "o", "n", "a", "t">> -> w_months
      [] t = <<"m", "o", "n", "a", "t", "e">> -> w_months
      [] t = <<"m", "t", "e">> -> w_months
      [] t = <<"m", "t">> -> w_months
      [] t = <<"p", "o", "r", "t", "i", "o", "n">> -> w_portion
      [] t = <<"p", "o", "r", "t", "i", "o", "n", "s">> -> w_portion
      [] t = <<"r", "o", "u", "l", "e", "a", "u", "x">> -> w_rolls
      [] t = <<"r", "o", "u", "l", "e", "a", "u">> -> w_rolls
      [] t = <<"r", "o", "l", "l", "s">> -> w_rolls
      [] OTHER -> t

\* stop, lines 1946-1950.
StopWords ==
    {<<"k", "g">>,
     <<"g">>,
     <<"g", "r">>,
     <<"g", "r", "a", "m">>,
     <<"s", "t", "k">>,
     <<"s", "t">>,
     <<"p", "c">>,
     <<"p", "c", "s">>,
     <<"p", "k">>,
     <<"p", "a", "c", "k">>,
     <<"m", "l">>,
     <<"l">>,
     <<"x">>,
     <<"a">>,
     <<"à">>,
     <<"p", "e", "r">>,
     <<"k", "a", "r", "t", "o", "n">>,
     <<"b", "o", "x">>,
     <<"t", "r", "a", "y">>,
     <<"c", "a", "s", "e">>,
     <<"b", "i", "o">>,
     <<"a", "o", "p">>,
     <<"i", "g", "p">>}

\* _tokenize(s)
Tokenize(s) ==
    LET words == Split(NormalizeText(s))
        tokens == {TokenMapGet(words[i]) : i \in 1..Len(words)}
    IN  {t \in tokens : Len(t) > 1 /\ t \notin StopWords}

\* _token_set_score(a, b) with the union for the sum in line 1959.
TokenSetScoreOverUnion(a, b) ==
    LET ta == Tokenize(a)
        tb == Tokenize(b)
    IN  IF ta = {} \/ tb = {} THEN 0
        ELSE Percent(2 * Cardinality(ta \cap tb), Cardinality(ta \cup tb))

\* _token_set_score(a, b)
TokenSetScore(a, b) ==
    LET ta == Tokenize(a)
        tb == Tokenize(b)
    IN  IF ta = {} \/ tb = {} THEN 0
        ELSE Percent(2 * Cardinality(ta \cap tb), Cardinality(ta) + Cardinality(tb))

----------------------------------------------------------------------------
(* _trigram_jaccard, app.py 1963-1974 *)

\* grams(s) without lines 1966-1967: a text of fewer than three characters
\* has no gram.
GramsOfThreeOnly(s) ==
    LET t == SelectSeq(NormalizeText(s), LAMBDA ch : ch # " ")
    IN  {SubSeq(t, i, i + 2) : i \in 1..(Len(t) - 2)}

\* grams(s)
Grams(s) ==
    LET t == SelectSeq(NormalizeText(s), LAMBDA ch : ch # " ")
    IN  IF Len(t) < 3 THEN (IF t # <<>> THEN {t} ELSE {})
        ELSE {SubSeq(t, i, i + 2) : i \in 1..(Len(t) - 2)}

\* _trigram_jaccard(a, b)
TrigramJaccard(a, b) ==
    LET ga == Grams(a)
        gb == Grams(b)
    IN  IF ga = {} \/ gb = {} THEN 0
        ELSE Percent(Cardinality(ga \cap gb), Cardinality(ga \cup gb))

----------------------------------------------------------------------------
(* jellyfish.jaro_winkler_similarity as called at app.py 1991-1996 *)

RECURSIVE JaroFlags(_, _, _, _, _)
\* The matching loop of the Jaro similarity: each character of s1, in order,
\* takes the first unflagged equal character of s2 within the search range.
\* <<flagged positions of s1 in order, flagged positions of s2>>.
JaroFlags(s1, s2, i, f1, f2) ==
    IF i > Len(s1) THEN <<f1, f2>>
    ELSE LET range == Max((Max(Len(s1), Len(s2)) \div 2) - 1, 0)
             low == Max(1, i - range)
             hi == Min(i + range, Len(s2))
             free == {j \in low..hi : j \notin f2 /\ s2[j] = s1[i]}
         IN  IF free = {} THEN JaroFlags(s1, s2, i + 1, f1, f2)
             ELSE LET j == CHOOSE x \in free : \A y \in free : x <= y
                  IN  JaroFlags(s1, s2, i + 1, Append(f1, i), f2 \cup {j})

RECURSIVE SortedSeq(_)
\* The elements of a set of numbers in increasing order.
SortedSeq(S) ==
    IF S = {} THEN <<>>
    ELSE LET m == CHOOSE x \in S : \A y \in S : x <= y
         IN  <<m>> \o SortedSeq(S \ {m})

\* round(jaro_winkler_similarity(s1, s2) * 100, 2) as thousandths: the Jaro
\* weight (m/|s1| + m/|s2| + (m - t)/m) / 3, raised by 0.1 per character of
\* the common prefix (at most 4) when the weight exceeds 0.7.
JaroWinkler(s1, s2) ==
    IF s1 = <<>> \/ s2 = <<>> THEN 0
    ELSE LET fl == JaroFlags(s1, s2, 1, <<>>, {})
             m == Len(fl[1])
             j2 == SortedSeq(fl[2])
             half == Cardinality({k \in 1..m : s1[fl[1][k]] # s2[j2[k]]})
             t == half \div 2
             den == 3 * Len(s1) * Len(s2) * m
             num == m * m * Len(s2) + m * m * Len(s1) + (m - t) * Len(s1) * Len(s2)
             RECURSIVE Prefix(_)
             Prefix(i) == IF i < Min(Min(Len(s1), Len(s2)), 4) /\ s1[i + 1] = s2[i + 1]
                          THEN Prefix(i + 1) ELSE i
             p == Prefix(0)
         IN  IF m = 0 THEN 0
             ELSE IF 10 * num > 7 * den
             THEN Percent(10 * num + p * (den - num), 10 * den)
             ELSE Percent(num, den)


----------------------------------------------------------------------------
(* get_match_threshold and get_relaxed_threshold, app.py 282-304 *)

\* os.getenv(name) of a variable that is not set.
Unset == "<unset>"

\* The settings of an environment variable the model tries.
EnvSettings ==
    {Unset, "", "abc", "nan", "inf", "-inf", "-5", "0", "5", "60", "75",
     "80", "95", "100", "150"}

\* The failure of float(s): ValueError.
ValueError == [k |-> "ValueError", v |-> 0]

\* float(s) of a str.
PyFloat(s) ==
    CASE s = "nan" -> NaN
      [] s = "inf" -> PosInf
      [] s = "-inf" -> NegInf
      [] s = "-5" -> Num(-5000)
      [] s = "0" -> Num(0)
      [] s = "5" -> Num(5000)
      [] s = "60" -> Num(60000)
      [] s = "75" -> Num(75000)
      [] s = "80" -> Num(80000)
      [] s = "95" -> Num(95000)
      [] s = "100" -> Num(100000)
      [] s = "150" -> Num(150000)
      [] OTHER -> ValueError

\* float(setting or default): the default when the variable is unset or "".
FloatOr(setting, default) ==
    IF setting = Unset \/ setting = "" THEN default ELSE PyFloat(setting)

\* Lines 288-291 and 300-303: the clamp to 0..100.
Clamp(val) ==
    LET v1 == IF FloatLt(val, Num(0)) THEN Num(0) ELSE val
    IN  IF FloatGt(v1, Num(100000)) THEN Num(100000) ELSE v1

\* get_match_threshold()
GetMatchThreshold(e) ==
    LET parsed == FloatOr(e.MATCH_THRESHOLD, Num(80000))
        val == IF parsed = ValueError THEN Num(80000) ELSE parsed
    IN  Clamp(val)

\* get_relaxed_threshold()
GetRelaxedThreshold(e) ==
    LET parsed == FloatOr(e.MATCH_THRESHOLD_RELAXED, Minus10(GetMatchThreshold(e)))
        val == IF parsed = ValueError
               THEN PyMax(Minus10(GetMatchThreshold(e)), Num(0))
               ELSE parsed
    IN  Clamp(val)


----------------------------------------------------------------------------
(* The matcher passes, app.py 1977-2034 *)

\* The four metrics of one (base_name, cand) pair, the anchor test of line
\* 1987 and the containment test of lines 2025-2027.
MetricsOf(a, b) ==
    [s1 |-> FuzzyRatio(a, b),
     s2 |-> TokenSetScore(a, b),
     s3 |-> TrigramJaccard(a, b),
     jw |-> JaroWinkler(NormalizeText(a), NormalizeText(b)),
     shares_anchor |-> Tokenize(a) \cap Tokenize(b) # {},
     contain |-> LET bn == NormalizeText(a)
                     cn == NormalizeText(b)
                     In(x, y) == \E i \in 1..(Len(y) - Len(x) + 1) :
                                     SubSeq(y, i, i + Len(x) - 1) = x
                 IN  In(bn, cn) \/ In(cn, bn)]

\* str(r.get(name_col) or "")
CandName(r, name_col) == IF Truthy(r[name_col]) THEN r[name_col] ELSE <<>>

\* best = None of lines 1980 and 2010.
NoRow == [none |-> TRUE]

Max4(a, b, c, d) == Max(Max(a, b), Max(c, d))

----------------------------------------------------------------------------
(* The strings the requests of the model carry *)

custA == <<"A">>

custB == <<"B">>

\* Product names of price sheets.
nGoudaAlt == <<"G", "o", "u", "d", "a", " ", "a", "l", "t">>

nBrie == <<"B", "r", "i", "e">>

\* Base names of synonym sheets (free text).
bGouda == <<"g", "o", "u", "d", "a">>

bBri == <<"b", "r", "i">>

bXyz == <<"x", "y", "z">>

\* Aliases of synonym sheets.
aliasX == <<"x">>

aliasY == <<"y">>

\* Names handed to the matcher passes on their own.
qComteLaib == <<"C", "o", "m", "t", "é", " ", "L", "a", "i", "b", " ", "2", "k", "g">>

nComteWheel == <<"C", "o", "m", "t", "é", " ", "W", "h", "e", "e", "l", " ", "2", "k", "g">>

nGruyereBlock == <<"G", "r", "u", "y", "è", "r", "e", " ", "B", "l", "o", "c", "k", " ", "1", "k", "g">>

bGoudaX == <<"g", "o", "u", "d", "a", " ", "x">>

qFetaBio == <<"F", "e", "t", "a", " ", "b", "i", "o">>

nBrieBio == <<"B", "r", "i", "e", " ", "b", "i", "o">>

\* Every string that can reach a matcher as base_name or as candidate: the
\* base names of uploads, product names (stored definitions carry them), and
\* the names of the calls of the passes on their own.
MatcherStrings ==
    {nGoudaAlt, nBrie, bGouda, bBri, bXyz, aliasX, aliasY,
     qComteLaib, nComteWheel, nGruyereBlock, bGoudaX, qFetaBio, nBrieBio}

\* The metrics of every pair of the model, computed once.
MetricsMemo == [a \in MatcherStrings, b \in MatcherStrings |-> MetricsOf(a, b)]

\* The metrics of a pair.
Metrics(a, b) == MetricsMemo[a, b]

\* Lines 1986-2001 without the test of lines 1999-2000: every score is
\* multiplied by 0.9.
Pass1ScoreAlwaysPenalized(m, jf) ==
    (Max4(m.s1, m.s2, m.s3, IF jf THEN m.jw ELSE 0) * 9) \div 10

\* Lines 1986-2001: the score of one candidate in the first pass.
Pass1Score(m, jf) ==
    LET score == Max4(m.s1, m.s2, m.s3, IF jf THEN m.jw ELSE 0)
    IN  IF ~m.shares_anchor THEN (score * 9) \div 10 ELSE score

\* Lines 2016-2030 with the fuzzy ratio s1 left out of the maximum of line
\* 2028.
Pass2ScoreNoRatio(m, jf) ==
    LET score == Max(Max(m.s2, m.s3), IF jf THEN m.jw ELSE 0)
    IN  IF m.contain /\ m.s2 >= 60000 THEN Max(score, 90000) ELSE score

\* Lines 2016-2030 without the second test of line 2029: containment alone
\* raises the score.
Pass2ScoreContainOnly(m, jf) ==
    LET score == Max4(m.s1, m.s2, m.s3, IF jf THEN m.jw ELSE 0)
    IN  IF m.contain THEN Max(score, 90000) ELSE score

\* Lines 2016-2030: the score of one candidate in the relaxed pass.
Pass2Score(m, jf) ==
    LET score == Max4(m.s1, m.s2, m.s3, IF jf THEN m.jw ELSE 0)
    IN  IF m.contain /\ m.s2 >= 60000 THEN Max(score, 90000) ELSE score

\* Lines 2002-2004 with the comparison turned around.
KeepBestBelow(best, r, score) ==
    IF score < best.score THEN [row |-> r, score |-> score] ELSE best

\* Lines 2002-2004 with ">=" for ">": of equal scores the last wins.
KeepBestLast(best, r, score) ==
    IF score >= best.score THEN [row |-> r, score |-> score] ELSE best

\* Lines 2002-2004 and 2031-2033: a row replaces the best only with a
\* strictly higher score.
KeepBest(best, r, score) ==
    IF score > best.score THEN [row |-> r, score |-> score] ELSE best

RECURSIVE BestLoop1(_, _, _, _, _, _)
\* The loop of lines 1982-2004 from row i on: rows without a name are
\* skipped, and a later row replaces the best only with a strictly higher
\* score.
BestLoop1(base_name, base_rows, name_col, jf, i, best) ==
    IF i > Len(base_rows) THEN best
    ELSE LET r == base_rows[i]
             cand == CandName(r, name_col)
         IN  IF cand = <<>>
             THEN BestLoop1(base_name, base_rows, name_col, jf, i + 1, best)
             ELSE BestLoop1(base_name, base_rows, name_col, jf, i + 1,
                            KeepBest(best, r, Pass1Score(Metrics(base_name, cand), jf)))

\* _best_match_base_row(base_name, base_rows, name_col): (best, best_score),
\* (None, -1.0) when no row has a name.
BestMatchBaseRow(base_name, base_rows, name_col, jf) ==
    BestLoop1(base_name, base_rows, name_col, jf, 1, [row |-> NoRow, score |-> -1000])

RECURSIVE BestLoop2(_, _, _, _, _, _)
\* The loop of lines 2012-2033 from row i on.
BestLoop2(base_name, base_rows, name_col, jf, i, best) ==
    IF i > Len(base_rows) THEN best
    ELSE LET r == base_rows[i]
             cand == CandName(r, name_col)
         IN  IF cand = <<>>
             THEN BestLoop2(base_name, base_rows, name_col, jf, i + 1, best)
             ELSE BestLoop2(base_name, base_rows, name_col, jf, i + 1,
                            KeepBest(best, r, Pass2Score(Metrics(base_name, cand), jf)))

\* _best_match_base_row_relaxed(base_name, base_rows, name_col)
BestMatchBaseRowRelaxed(base_name, base_rows, name_col, jf) ==
    BestLoop2(base_name, base_rows, name_col, jf, 1, [row |-> NoRow, score |-> -1000])

----------------------------------------------------------------------------
(* The "preise" and "synonyms" tables, app.py 140-226 and 664-727 *)

\* A table is [cols, rows]: the column names in order and the rows in rowid
\* order, each row a function from the column names to a str or None.  A
\* table that does not exist has no columns (PRAGMA table_info is empty).
NoTable == [cols |-> <<>>, rows |-> <<>>]

\* A column a lookup did not find (None; no header is empty, line 602).
NoCol == ""

\* str(c).strip().lower() of the column names of the model (none of them
\* has blanks at its ends).
HeaderKey(c) ==
    CASE c = "Kunde_Name" -> "kunde_name"
      [] c = "Produktname" -> "produktname"
      [] c = "Preis" -> "preis"
      [] c = "Name" -> "name"
      [] c = "A" -> "a"
      [] c = "B" -> "b"
      [] c = "P" -> "p"
      [] c = "S" -> "s"
      [] c = "Brie" -> "brie"
      [] c = "Gouda alt" -> "gouda alt"
      [] OTHER -> c

\* The first column of cols that is one of wanted, or None: what a loop
\* "for c in cols: if <test>: return c" returns, wanted being the columns
\* that pass the test.
FirstCol(cols, wanted) ==
    IF \E i \in 1..Len(cols) : cols[i] \in wanted
    THEN cols[CHOOSE i \in 1..Len(cols) :
                cols[i] \in wanted /\ \A j \in 1..(i - 1) : cols[j] \notin wanted]
    ELSE NoCol

\* get_kunde_col_from_cols(cols), and lines 673-682 of fetch_rows_for_kunde.
GetKundeColFromCols(cols) ==
    LET exact == FirstCol(cols, {"Kunde_Name"})
    IN  IF exact # NoCol THEN exact
        ELSE FirstCol(cols, {c \in Range(cols) : HeaderKey(c) = "kunde_name"})

\* get_productname_col_from_cols(cols)
GetProductnameColFromCols(cols) ==
    LET exact == FirstCol(cols, {"Produktname"})
        folded == FirstCol(cols, {c \in Range(cols) : HeaderKey(c) = "produktname"})
    IN  IF exact # NoCol THEN exact
        ELSE IF folded # NoCol THEN folded
        ELSE FirstCol(cols, {c \in Range(cols) : c = "Name" \/ HeaderKey(c) = "name"})

srcP == <<"P">>

srcS == <<"S">>

\* delete_s_rows_for_customers without the customer test of line 211: the S
\* rows of every customer are deleted.
DeleteSRowsOfAll(table, customers) ==
    IF customers = {} \/ "record_source" \notin Range(table.cols) THEN table
    ELSE [table EXCEPT !.rows = SelectSeq(table.rows, LAMBDA r : r["record_source"] # srcS)]


\* delete_s_rows_for_customers(conn, customers): the table afterwards.
DeleteSRowsForCustomers(table, customers) ==
    LET kunde_col == GetKundeColFromCols(table.cols)
    IN  IF customers = {} THEN table
        ELSE IF kunde_col = NoCol \/ "record_source" \notin Range(table.cols) THEN table
        ELSE [table EXCEPT !.rows =
                SelectSeq(table.rows,
                          LAMBDA r : ~(r["record_source"] = srcS /\ r[kunde_col] \in customers))]

\* fetch_rows_for_kunde without the WHERE clause: every row of the table.
FetchRowsForAnyKunde(table, kunde_name) ==
    LET kunde_col == GetKundeColFromCols(table.cols)
    IN  IF table.cols = <<>> \/ kunde_col = NoCol THEN <<>>
        ELSE table.rows

\* fetch_rows_for_kunde(conn, kunde_name): every row of that customer.
FetchRowsForKunde(table, kunde_name) ==
    LET kunde_col == GetKundeColFromCols(table.cols)
    IN  IF table.cols = <<>> \/ kunde_col = NoCol THEN <<>>
        ELSE SelectSeq(table.rows, LAMBDA r : r[kunde_col] = kunde_name)

\* The SELECT of lines 256-260: the P rows of a customer.
SelectPRows(table, kunde_col, cust) ==
    SelectSeq(table.rows, LAMBDA r : r[kunde_col] = cust /\ r["record_source"] = srcP)

\* insert_row_dict(conn, row_obj): sqlite3 raises when a key of the row is no
\* column of the table.  [ok, table].
InsertRowDict(table, row_obj) ==
    IF DOMAIN row_obj \subseteq Range(table.cols)
    THEN [ok |-> TRUE, table |-> [table EXCEPT !.rows = Append(@, row_obj)]]
    ELSE [ok |-> FALSE, table |-> table]

\* clear_synonyms_for_customers without its DELETE: every definition stays.
ClearSynonymsOfNone(defs, customers) == defs


\* clear_synonyms_for_customers(conn, customers): the definitions afterwards.
ClearSynonymsForCustomers(defs, customers) ==
    SelectSeq(defs, LAMBDA d : d.Customer \notin customers)

\* insert_synonym_rows with the values of Name and Synonyms in each other's
\* place.
InsertSynonymRowsSwapped(defs, rows) ==
    defs \o [i \in 1..Len(rows) |->
               [rows[i] EXCEPT !.Name = rows[i].Synonyms, !.Synonyms = rows[i].Name]]

\* insert_synonym_rows(conn, rows): the definitions afterwards (the id and
\* created_at columns are not modelled).
InsertSynonymRows(defs, rows) == defs \o rows

----------------------------------------------------------------------------
(* synonyms_upload, app.py 2037-2144 *)

\* The outcome of a pass that did not run.
NoPass == [row |-> NoRow, score |-> -1000]

\* Lines 2116-2122 with the relaxed pass run but its result dropped: the row
\* and the score of pass 1 are kept.
UploadDecideKeepsPass1(p1, p2, threshold, rthr) ==
    LET fail1 == p1.row = NoRow \/ FloatLt(Num(p1.score), threshold)
        fail2 == p2.row = NoRow \/ FloatLt(Num(p2.score), rthr)
    IN  IF ~fail1
        THEN [p1 |-> p1, relaxed |-> FALSE, p2 |-> NoPass, matched |-> TRUE,
              best_row |-> p1.row, best_score |-> p1.score]
        ELSE [p1 |-> p1, relaxed |-> TRUE, p2 |-> p2, matched |-> ~fail2,
              best_row |-> p1.row, best_score |-> p1.score]

\* Lines 2116-2122: what the outcomes p1 and p2 of the two passes make of a
\* row.  [p1, relaxed, p2, matched, best_row, best_score]; relaxed tells
\* whether pass 2 ran.
UploadDecide(p1, p2, threshold, rthr) ==
    LET fail1 == p1.row = NoRow \/ FloatLt(Num(p1.score), threshold)
        fail2 == p2.row = NoRow \/ FloatLt(Num(p2.score), rthr)
    IN  IF ~fail1
        THEN [p1 |-> p1, relaxed |-> FALSE, p2 |-> NoPass, matched |-> TRUE,
              best_row |-> p1.row, best_score |-> p1.score]
        ELSE [p1 |-> p1, relaxed |-> TRUE, p2 |-> p2, matched |-> ~fail2,
              best_row |-> p2.row, best_score |-> p2.score]

\* Lines 2115-2122: the two passes for one row of the sheet.
UploadMatch(base, base_rows, name_col, threshold, e, jf) ==
    UploadDecide(BestMatchBaseRow(base, base_rows, name_col, jf),
                 BestMatchBaseRowRelaxed(base, base_rows, name_col, jf),
                 threshold, GetRelaxedThreshold(e))

\* Lines 2126-2128: the copy of the matched row that carries the alias.
UploadDup(best_row, name_col, alias) ==
    [c \in DOMAIN best_row \cup {"record_source"} |->
        IF c = "record_source" THEN srcS
        ELSE IF c = name_col THEN alias
        ELSE best_row[c]]

\* The body of the loop of lines 2110-2129 for one row of the sheet, with the
\* customer's cached rows and the outcome m of the two passes.  acc is
\* [table, batch_defs, unmatched, log, raised].
UploadRow(acc, row, base_rows, m, name_col) ==
    LET entry == [cust |-> row.cust, base |-> row.base, alias |-> row.alias,
                  pool |-> base_rows]
        skipped == [acc EXCEPT
                      !.unmatched = @ + 1,
                      !.log = Append(@, entry @@
                                [p1 |-> NoPass, relaxed |-> FALSE, p2 |-> NoPass,
                                 matched |-> FALSE, best_row |-> NoRow,
                                 best_score |-> -1000])]
        missed == [acc EXCEPT
                      !.unmatched = @ + 1,
                      !.log = Append(@, entry @@ m)]
        ins == InsertRowDict(acc.table, UploadDup(m.best_row, name_col, row.alias))
        stored == [acc EXCEPT
                      !.table = ins.table,
                      !.raised = ~ins.ok,
                      !.batch_defs = Append(@,
                           [Customer |-> row.cust,
                            Name |-> CandName(m.best_row, name_col),
                            Synonyms |-> row.alias,
                            match_score |-> m.best_score]),
                      !.log = Append(@, entry @@ m)]
    IN  IF base_rows = <<>> THEN skipped
        ELSE IF ~m.matched THEN missed
        ELSE stored

RECURSIVE UploadLoop(_, _, _, _, _, _, _, _)
\* The loop of lines 2110-2129 with a break in place of the continue of line
\* 2122: the first unmatched row ends the batch.
UploadLoopAborts(syn_input, i, cache, name_col, threshold, e, jf, acc) ==
    IF i > Len(syn_input) \/ acc.raised \/ acc.unmatched > 0 THEN acc
    ELSE UploadLoop(syn_input, i + 1, cache, name_col, threshold, e, jf,
                    UploadRow(acc, syn_input[i], cache[syn_input[i].cust],
                              UploadMatch(syn_input[i].base, cache[syn_input[i].cust],
                                          name_col, threshold, e, jf),
                              name_col))

\* The loop of lines 2110-2129 from row i of syn_input on; an exception of
\* insert_row_dict ends the loop (raised), the rows inserted before it stay
\* committed.
UploadLoop(syn_input, i, cache, name_col, threshold, e, jf, acc) ==
    IF i > Len(syn_input) \/ acc.raised THEN acc
    ELSE UploadLoop(syn_input, i + 1, cache, name_col, threshold, e, jf,
                    UploadRow(acc, syn_input[i], cache[syn_input[i].cust],
                              UploadMatch(syn_input[i].base, cache[syn_input[i].cust],
                                          name_col, threshold, e, jf),
                              name_col))

\* Line 2080: a row of the sheet with a customer, a name and an alias.
ValidSynRow(r) == r.cust # <<>> /\ r.base # <<>> /\ r.alias # <<>>

\* What a request left behind when it did not reach the matching.
NoTrace(op, response) ==
    [op |-> op, response |-> response, threshold |-> Num(0), input |-> <<>>,
     log |-> <<>>, stored |-> 0, unmatched |-> 0, sheet |-> <<>>,
     repeat |-> FALSE]

\* What synonyms_upload left behind when it reached the matching loop;
\* repeat tells that the request before it was an upload of the same rows.
UploadTrace(response, threshold, syn_input, res) ==
    [op |-> "synonyms_upload", response |-> response, threshold |-> threshold,
     input |-> syn_input, log |-> res.log,
     stored |-> IF res.raised THEN 0 ELSE Len(res.batch_defs),
     unmatched |-> res.unmatched, sheet |-> <<>>,
     repeat |-> (last.op = "synonyms_upload" /\ last.input = syn_input)]

\* Lines 2049-2062, 2101-2102 and 2131-2144: the responses of synonyms_upload
\* and what is committed with each; t1 and d1 are the tables after the
\* deletes of lines 2089-2092, res the outcome of the loop.
UploadRespond(f, threshold, syn_input, t1, d1, kunde_col, name_col, res) ==
    IF f.kind \in {"no_file", "bad_ext", "missing_cols"}
    THEN /\ last' = NoTrace("synonyms_upload", "400")
         /\ UNCHANGED <<preise, synonyms>>
    ELSE IF kunde_col = NoCol \/ name_col = NoCol
    THEN /\ preise' = t1
         /\ synonyms' = d1
         /\ last' = [NoTrace("synonyms_upload", "400")
                       EXCEPT !.threshold = threshold, !.input = syn_input]
    ELSE IF res.raised
    THEN /\ preise' = res.table
         /\ synonyms' = d1
         /\ last' = UploadTrace("flash error", threshold, syn_input, res)
    ELSE /\ preise' = res.table
         /\ synonyms' = InsertSynonymRows(d1, res.batch_defs)
         /\ last' = UploadTrace("flash success", threshold, syn_input, res)

\* synonyms_upload with the uploaded sheet f = [kind, rows]: kind is
\* "no_file", "bad_ext", "missing_cols" (a required column is absent) or "ok";
\* rows are the stripped Customer, Name and Synonyms cells, "" for an empty one.
SynonymsUpload(f) ==
    LET threshold == GetMatchThreshold(env)
        syn_input == SelectSeq(f.rows, ValidSynRow)
        customers_in_file == {syn_input[i].cust : i \in 1..Len(syn_input)}
        t1 == DeleteSRowsForCustomers(preise, customers_in_file)
        d1 == ClearSynonymsForCustomers(synonyms, customers_in_file)
        kunde_col == GetKundeColFromCols(t1.cols)
        name_col == GetProductnameColFromCols(t1.cols)
        cache == [c \in customers_in_file |-> FetchRowsForKunde(t1, c)]
    IN  /\ UNCHANGED <<env, jellyfish, nIn, nOut, thr, mIn, mOut,
                 invoicing>>
        /\ UploadRespond(f, threshold, syn_input, t1, d1, kunde_col, name_col,
                         UploadLoop(syn_input, 1, cache, name_col, threshold, env,
                                    jellyfish,
                                    [table |-> t1, batch_defs |-> <<>>,
                                     unmatched |-> 0, log |-> <<>>,
                                     raised |-> FALSE]))

----------------------------------------------------------------------------
(* rebuild_synonyms_into_preise, app.py 228-279 *)

\* Lines 262-268: what the outcomes p1 and p2 of the two passes make of a
\* stored definition.
RebuildDecide(p1, p2, threshold, rthr) ==
    LET fail1 == p1.row = NoRow \/ FloatLt(Num(p1.score), threshold)
        fail2 == p2.row = NoRow \/ FloatLt(Num(p2.score), rthr)
    IN  IF ~fail1
        THEN [p1 |-> p1, relaxed |-> FALSE, p2 |-> NoPass, matched |-> TRUE,
              best_row |-> p1.row, best_score |-> p1.score]
        ELSE [p1 |-> p1, relaxed |-> TRUE, p2 |-> p2, matched |-> ~fail2,
              best_row |-> p2.row, best_score |-> p2.score]

\* Lines 261-268: the two passes for one stored definition.
RebuildMatch(base, base_rows, name_col, threshold, e, jf) ==
    RebuildDecide(BestMatchBaseRow(base, base_rows, name_col, jf),
                  BestMatchBaseRowRelaxed(base, base_rows, name_col, jf),
                  threshold, GetRelaxedThreshold(e))

\* Lines 270-273: the copy of the matched row that carries the alias.
RebuildDup(best_row, cols, name_col, alias) ==
    [c \in Range(cols) |->
        IF c = "record_source" THEN srcS
        ELSE IF c = name_col THEN alias
        ELSE best_row[c]]

\* The body of the loop of lines 249-278 for one definition, with the
\* customer's P rows and the outcome m of the two passes.  acc is [table,
\* inserted, unmatched, log].
RebuildRow(acc, cust, base, alias, base_rows, m, name_col) ==
    LET cols == acc.table.cols
        entry == [cust |-> cust, base |-> base, alias |-> alias, pool |-> base_rows]
        ins == InsertRowDict(acc.table, RebuildDup(m.best_row, cols, name_col, alias))
    IN  IF cust = <<>> \/ base = <<>> \/ alias = <<>> THEN acc
        ELSE IF ~m.matched
        THEN [acc EXCEPT !.unmatched = @ + 1, !.log = Append(@, entry @@ m)]
        ELSE IF "record_source" \notin Range(cols) THEN acc
        ELSE [acc EXCEPT !.table = ins.table, !.inserted = @ + 1,
                         !.log = Append(@, entry @@ m)]

RECURSIVE RebuildLoop(_, _, _, _, _, _, _, _)
\* The loop of lines 249-278 from definition i on.
RebuildLoop(defs, i, kunde_col, name_col, threshold, e, jf, acc) ==
    IF i > Len(defs) THEN acc
    ELSE LET cust == Strip(OrEmpty(defs[i].Customer))
             base == Strip(OrEmpty(defs[i].Name))
             alias == Strip(OrEmpty(defs[i].Synonyms))
             base_rows == SelectPRows(acc.table, kunde_col, cust)
         IN  RebuildLoop(defs, i + 1, kunde_col, name_col, threshold, e, jf,
                         RebuildRow(acc, cust, base, alias, base_rows,
                                    RebuildMatch(base, base_rows, name_col,
                                                 threshold, e, jf),
                                    name_col))

\* rebuild_synonyms_into_preise(conn, None, threshold): [table, inserted,
\* unmatched, log].
RebuildSynonymsIntoPreise(table, defs, threshold, e, jf) ==
    LET kunde_col == GetKundeColFromCols(table.cols)
        name_col == GetProductnameColFromCols(table.cols)
        acc == [table |-> table, inserted |-> 0, unmatched |-> 0, log |-> <<>>]
    IN  IF kunde_col = NoCol \/ name_col = NoCol THEN acc
        ELSE RebuildLoop(defs, 1, kunde_col, name_col, threshold, e, jf, acc)

----------------------------------------------------------------------------
(* feeddata_post, app.py 1052-1120 *)

\* The texts that occur in a cell of a price sheet.  A column name is the
\* text itself, a cell holds it as a sequence of characters.
ColNames ==
    {"Kunde_Name", "Produktname", "record_source", "Preis", "Name", "name", "A", "B",
     "Gouda alt", "Brie", "x", "y", "P", "S", "1"}

\* The cell that holds a text.
CellOf(name) ==
      CASE name = "Kunde_Name" -> <<"K", "u", "n", "d", "e", "_", "N", "a", "m", "e">>
        [] name = "Produktname" -> <<"P", "r", "o", "d", "u", "k", "t", "n", "a", "m", "e">>
        [] name = "record_source" -> <<"r", "e", "c", "o", "r", "d", "_", "s", "o", "u", "r", "c", "e">>
        [] name = "Preis" -> <<"P", "r", "e", "i", "s">>
        [] name = "Name" -> <<"N", "a", "m", "e">>
        [] name = "name" -> <<"n", "a", "m", "e">>
        [] name = "A" -> <<"A">>
        [] name = "B" -> <<"B">>
        [] name = "Gouda alt" -> <<"G", "o", "u", "d", "a", " ", "a", "l", "t">>
        [] name = "Brie" -> <<"B", "r", "i", "e">>
        [] name = "x" -> <<"x">>
        [] name = "y" -> <<"y">>
        [] name = "P" -> <<"P">>
        [] name = "S" -> <<"S">>
        [] name = "1" -> <<"1">>

\* str(v) of a cell with a text, as a column name.
NameOf(cell) == CHOOSE name \in ColNames : CellOf(name) = cell

\* parse_preise_sheet_exact without the test of lines 614-616: rows without
\* a value are kept.
ParseKeepsEmptyRows(raw) ==
    IF Len(raw) < 2 THEN [headers |-> <<>>, rows |-> <<>>]
    ELSE LET headers_raw == raw[2]
             kept == {i \in 1..Len(headers_raw) :
                        /\ headers_raw[i] # None
                        /\ headers_raw[i] # <<>>
                        /\ \A j \in (i + 1)..Len(headers_raw) :
                              headers_raw[j] # headers_raw[i]}
             kept_indices == SortedSeq(kept)
             data == SubSeq(raw, 3, Len(raw))
         IN  [headers |-> [k \in 1..Len(kept_indices) |->
                             NameOf(headers_raw[kept_indices[k]])],
              rows |-> [n \in 1..Len(data) |->
                          [k \in 1..Len(kept_indices) |->
                             IF kept_indices[k] <= Len(data[n])
                             THEN data[n][kept_indices[k]]
                             ELSE None]]]

\* parse_preise_sheet_exact on the grid raw that xls.parse(header=None) reads:
\* a sequence of rows, each a sequence of cells, None for an empty cell.  The
\* first row is ignored, the second holds the column names (of equal names
\* the last is kept), the others are data; rows without a value are skipped.
\* [headers, rows].
ParsePreiseSheetExact(raw) ==
    IF Len(raw) < 2 THEN [headers |-> <<>>, rows |-> <<>>]
    ELSE LET headers_raw == raw[2]
             kept == {i \in 1..Len(headers_raw) :
                        /\ headers_raw[i] # None
                        /\ headers_raw[i] # <<>>
                        /\ \A j \in (i + 1)..Len(headers_raw) :
                              headers_raw[j] # headers_raw[i]}
             kept_indices == SortedSeq(kept)
             data == SelectSeq(SubSeq(raw, 3, Len(raw)),
                               LAMBDA r : \E k \in 1..Len(r) :
                                            r[k] # None /\ Strip(r[k]) # <<>>)
         IN  [headers |-> [k \in 1..Len(kept_indices) |->
                             NameOf(headers_raw[kept_indices[k]])],
              rows |-> [n \in 1..Len(data) |->
                          [k \in 1..Len(kept_indices) |->
                             IF kept_indices[k] <= Len(data[n])
                             THEN data[n][kept_indices[k]]
                             ELSE None]]]

\* Lines 1092-1094: a sheet without a record_source column gets one, 'P' in
\* every row.  [headers, rows].
WithRecordSource(headers, rows) ==
    IF \E i \in 1..Len(headers) : headers[i] = "record_source"
    THEN [headers |-> headers, rows |-> rows]
    ELSE [headers |-> Append(headers, "record_source"),
          rows |-> [i \in 1..Len(rows) |-> Append(rows[i], srcP)]]

\* create_pricing_table raises when two headers are the same column name for
\* SQLite, which compares column names without regard to case.
DuplicateColumn(headers) ==
    \E i, j \in 1..Len(headers) : i < j /\ HeaderKey(headers[i]) = HeaderKey(headers[j])

\* insert_pricing_rows(conn, headers, rows) into the new table.
InsertPricingRows(headers, rows) ==
    [cols |-> headers,
     rows |-> [i \in 1..Len(rows) |->
                 [c \in Range(headers) |->
                    rows[i][CHOOSE k \in 1..Len(headers) : headers[k] = c]]]]

\* Lines 1056-1120: the responses of feeddata_post and what is committed with
\* each; parsed is what parse_preise_sheet_exact returns, hr is that with its
\* record_source column, stats the outcome of the rebuild on the imported
\* table.
FeeddataRespond(f, parsed, hr, threshold, stats) ==
    IF f.kind # "ok"
    THEN /\ last' = NoTrace("feeddata_post", "flash error")
         /\ UNCHANGED preise
    ELSE IF ~f.sheet \/ parsed.headers = <<>>
            \/ ~\E i \in 1..Len(parsed.headers) :
                   HeaderKey(parsed.headers[i]) = "kunde_name"
    THEN /\ last' = NoTrace("feeddata_post", "flash error")
         /\ UNCHANGED preise
    ELSE IF DuplicateColumn(hr.headers)
    THEN /\ preise' = NoTable
         /\ last' = NoTrace("feeddata_post", "flash error")
    ELSE /\ preise' = stats.table
         /\ last' = [op |-> "feeddata_post", response |-> "flash success",
                     threshold |-> threshold, input |-> synonyms,
                     log |-> stats.log, stored |-> stats.inserted,
                     unmatched |-> stats.unmatched, sheet |-> f.raw,
                     repeat |-> FALSE]

\* Lines 1092-1108: the import of the parsed sheet and the rebuild.
FeeddataImport(f, parsed) ==
    FeeddataRespond(f, parsed, WithRecordSource(parsed.headers, parsed.rows),
        GetMatchThreshold(env),
        RebuildSynonymsIntoPreise(
            InsertPricingRows(WithRecordSource(parsed.headers, parsed.rows).headers,
                              WithRecordSource(parsed.headers, parsed.rows).rows),
            synonyms, GetMatchThreshold(env), env, jellyfish))

\* feeddata_post with the uploaded workbook f = [kind, sheet, raw]: kind is
\* "no_file", "bad_ext" or "ok", sheet tells whether find_preise_sheet_name
\* found a sheet, raw is the grid of that sheet.
FeeddataPost(f) ==
    /\ UNCHANGED <<env, jellyfish, synonyms, nIn, nOut, thr, mIn, mOut,
                 invoicing>>
    /\ FeeddataImport(f, ParsePreiseSheetExact(f.raw))

----------------------------------------------------------------------------
(* build_pricing_json_for_client, app.py 1140-1178 *)

\* build_pricing_json_for_client(client_name) on the two tables: every row
\* fetch_rows_for_kunde returns for the client (line 1146, P rows and S
\* rows alike), followed, when the table has a column called 'Name', by a
\* copy of each fetched row whose name is the Name of a stored definition of
\* the client, with the alias in place of the name (lines 1157-1175).
BuildPricingJsonForClient(table, defs, client_name) ==
    LET base_rows == FetchRowsForKunde(table, client_name)
        name_col == IF base_rows = <<>> THEN NoCol
                    ELSE FirstCol(table.cols,
                                  {c \in Range(table.cols) : c = "Name" \/ HeaderKey(c) = "name"})
        syn_rows == SelectSeq(defs, LAMBDA d : d.Customer = client_name)
        Key(r) == Strip(OrEmpty(r[name_col]))
        Dups(s) == IF Strip(OrEmpty(s.Synonyms)) = <<>> THEN <<>>
                   ELSE LET bases == SelectSeq(base_rows,
                                        LAMBDA r : Key(r) # <<>> /\ Key(r) = Strip(OrEmpty(s.Name)))
                        IN  [i \in 1..Len(bases) |->
                               [bases[i] EXCEPT ![name_col] = Strip(OrEmpty(s.Synonyms))]]
    IN  IF table.cols = <<>> THEN <<>>
        ELSE IF name_col = NoCol THEN base_rows
        ELSE base_rows \o Concat([i \in 1..Len(syn_rows) |-> Dups(syn_rows[i])])


----------------------------------------------------------------------------
(* The invoice flow: api_generate_invoice (app.py 1662-1872),               *)
(* download_invoice_once (2243-2260), api_update_draft (2774-2828) and      *)
(* api_finalize_invoice (2831-2949).  Texts are sequences of characters,    *)
(* None is SQL NULL; the time stamps of the rows are left out.             *)

\* The draft ids of the model; the code draws them with uuid.uuid4().
DraftIds == {"d1", "d2"}

\* What the model holds for a draft_id without a row.
NoDraft == [status |-> "absent"]

\* Most invoice records a run creates.
MaxInvoices == 2

\* Number of /download-once requests of a run.
MaxDownloads == 2

\* A request that has not been sent yet.  result is "" until it is answered;
\* late tells that a request for the same invoice had been answered with
\* the PDF before this one started.
IdleReq == [pc |-> "idle", invoice_id |-> 0, result |-> "", late |-> FALSE]

\* No draft, no invoice and no request.
NoInvoicing ==
    /\ two_phase = FALSE
    /\ draft_invoices = [d \in DraftIds |-> NoDraft]
    /\ invoices = <<>>
    /\ tmp_files = {}
    /\ reqs = [r \in 1..MaxDownloads |-> IdleReq]

\* strip_trailing_pdf(name), lines 1239-1243.
StripTrailingPdf(name) ==
    LET s == OrEmpty(name)
    IN  IF Len(s) >= 4 /\ Lower(SubSeq(s, Len(s) - 3, Len(s))) = <<".", "p", "d", "f">>
        THEN SubSeq(s, 1, Len(s) - 4)
        ELSE s

\* Lines 1852-1863 and 2914-2925: a PDF came back from the webhook.
\* _add_invoice_record puts a record with a fresh id in front of the others
\* (the id is its number here), and a copy of the PDF is written to
\* DOWNLOAD_TMP_DIR under that id.  The code does not store which draft a
\* record was made from; the model keeps it in the field draft ("" for the
\* single-phase flow) to be able to count the invoices of a draft.
AddInvoice(draft_id) ==
    /\ invoices' = <<[id |-> Len(invoices) + 1, draft |-> draft_id]>> \o invoices
    /\ tmp_files' = tmp_files \cup {Len(invoices) + 1}

\* api_generate_invoice with the form field invoice_name (stripped, "" when
\* absent) and the outcome of the webhook.  With the two-phase flow the JSON
\* payload is stored as a new draft with status 'draft' under a fresh
\* draft_id (lines 1786-1816); without it the PDF becomes an invoice record
\* with its one-time copy (1823-1863).  A webhook failure answers 502 and
\* stores nothing.
ApiGenerateInvoice(invoice_name, webhook_ok) ==
    /\ UNCHANGED <<two_phase, reqs>>
    /\ IF ~webhook_ok THEN UNCHANGED <<draft_invoices, invoices, tmp_files>>
       ELSE IF two_phase
       THEN /\ \E d \in DraftIds :
                 /\ draft_invoices[d] = NoDraft
                 /\ draft_invoices' =
                       [draft_invoices EXCEPT ![d] =
                          [status |-> "draft",
                           payload_json |-> <<"p", "0">>,
                           invoice_name |-> IF invoice_name # <<>>
                                            THEN StripTrailingPdf(invoice_name)
                                            ELSE None,
                           title_invoice |-> <<"t", "0">>,
                           header_invoice |-> <<"h", "0">>,
                           footer_invoice |-> None,
                           currency_exchange |-> None]]
            /\ UNCHANGED <<invoices, tmp_files>>
       ELSE /\ Len(invoices) < MaxInvoices
            /\ AddInvoice("")
            /\ UNCHANGED draft_invoices

\* The JSON bodies of PUT /api/draft/<draft_id>, None for a key that is
\* absent: an empty body, a new payload, a new invoice name, and new texts
\* with an empty invoice name.
UpdateData ==
    LET nothing == [payload |-> None, invoice_name |-> None, title_invoice |-> None,
                    header_invoice |-> None, footer_invoice |-> None,
                    currency_exchange |-> None]
    IN  {nothing,
         [nothing EXCEPT !.payload = <<"p", "1">>],
         [nothing EXCEPT !.invoice_name = <<"b", ".", "p", "d", "f">>],
         [nothing EXCEPT !.invoice_name = <<>>, !.title_invoice = <<"t", "1">>,
                         !.header_invoice = <<>>, !.footer_invoice = <<"f", "1">>,
                         !.currency_exchange = <<"1", ".", "1">>]}

\* api_update_draft(draft_id) with the body data: 400 when no key is given
\* (line 2783), 404 when the draft has no row (2792-2793); otherwise the
\* UPDATE of lines 2799-2822, which does not look at the status: the
\* payload is replaced when given, the name is the stripped new name or,
\* when that is empty, the stripped stored one, every other text is
\* replaced when given.
ApiUpdateDraft(draft_id, data) ==
    LET existing == draft_invoices[draft_id]
        New(given, stored) == IF given # None THEN given ELSE stored
        name == StripTrailingPdf(OrEmpty(IF Truthy(data.invoice_name)
                                         THEN data.invoice_name
                                         ELSE existing.invoice_name))
    IN  /\ UNCHANGED <<two_phase, invoices, tmp_files, reqs>>
        /\ IF \A k \in DOMAIN data : data[k] = None THEN UNCHANGED draft_invoices
           ELSE IF existing = NoDraft THEN UNCHANGED draft_invoices
           ELSE draft_invoices' =
                   [draft_invoices EXCEPT ![draft_id] =
                      [status |-> existing.status,
                       payload_json |-> New(data.payload, existing.payload_json),
                       invoice_name |-> IF name # <<>> THEN name ELSE None,
                       title_invoice |-> New(data.title_invoice, existing.title_invoice),
                       header_invoice |-> New(data.header_invoice, existing.header_invoice),
                       footer_invoice |-> New(data.footer_invoice, existing.footer_invoice),
                       currency_exchange |-> New(data.currency_exchange,
                                                 existing.currency_exchange)]]

\* api_finalize_invoice with the body {"draft_id": draft_id} and the outcome
\* of the webhook: 400 without the two-phase flow (line 2834), 404 when the
\* draft has no row (2848-2849), 502 when no PDF comes back (2894-2896);
\* otherwise an invoice record and its one-time copy are made and the draft
\* is marked 'finalized' (2906-2934).  The SELECT of lines 2843-2846 does
\* not read the status.
ApiFinalizeInvoice(draft_id, looks_pdf) ==
    /\ UNCHANGED <<two_phase, reqs>>
    /\ IF ~two_phase \/ draft_invoices[draft_id] = NoDraft \/ ~looks_pdf
       THEN UNCHANGED <<draft_invoices, invoices, tmp_files>>
       ELSE /\ Len(invoices) < MaxInvoices
            /\ AddInvoice(draft_id)
            /\ draft_invoices' = [draft_invoices EXCEPT ![draft_id].status = "finalized"]

\* download_invoice_once(invoice_id), lines 2247-2250, for request r: the
\* record is looked up and the copy is tested with os.path.exists; 404 when
\* either is missing.
DownloadStart(r, invoice_id) ==
    /\ reqs[r].pc = "idle"
    /\ reqs' = [reqs EXCEPT ![r] =
          [pc |-> IF invoice_id \in tmp_files /\ invoice_id <= Len(invoices)
                  THEN "checked" ELSE "done",
           invoice_id |-> invoice_id,
           result |-> IF invoice_id \in tmp_files /\ invoice_id <= Len(invoices)
                      THEN "" ELSE "404",
           late |-> \E o \in DOMAIN reqs :
                       /\ reqs[o].invoice_id = invoice_id
                       /\ reqs[o].pc = "done"
                       /\ reqs[o].result = "pdf"]]
    /\ UNCHANGED <<two_phase, draft_invoices, invoices, tmp_files>>

\* Line 2260 for request r: send_file opens the copy; it raises, and the
\* request is answered with 500, when the copy is gone by now.
DownloadSend(r) ==
    /\ reqs[r].pc = "checked"
    /\ reqs' = [reqs EXCEPT ![r].pc = IF reqs[r].invoice_id \in tmp_files
                                      THEN "opened" ELSE "done",
                            ![r].result = IF reqs[r].invoice_id \in tmp_files
                                          THEN "" ELSE "500"]
    /\ UNCHANGED <<two_phase, draft_invoices, invoices, tmp_files>>

\* Lines 2252-2258 for request r: after the view has returned, _cleanup
\* removes the copy (an error of os.remove is swallowed) and the opened file
\* is sent.
DownloadCleanup(r) ==
    /\ reqs[r].pc = "opened"
    /\ tmp_files' = tmp_files \ {reqs[r].invoice_id}
    /\ reqs' = [reqs EXCEPT ![r].pc = "done", ![r].result = "pdf"]
    /\ UNCHANGED <<two_phase, draft_invoices, invoices>>


----------------------------------------------------------------------------
(* The requests of the model *)

\* Number of requests a run of the model serves.
MaxRequests == 4

\* Longest price sheet, in rows.
MaxPriceRows == 2

\* Longest synonym sheet, in rows.
MaxSynRows == 2

\* Largest table the model downloads and imports again, in rows.
MaxTableRows == 4

\* The sequences over S of length at most n.
SeqsUpTo(S, n) == UNION {[1..k -> S] : k \in 0..n}

\* Rows (Kunde_Name, Produktname) of price sheets.
PriceRows == {<<custA, nGoudaAlt>>, <<custA, nBrie>>, <<custB, nBrie>>}

\* A row of empty cells.
BlankRow(n) == [k \in 1..n |-> None]

\* The grid of a price sheet as the import expects it: an empty first row,
\* the column names in the second row, the data below.
PriceSheet(headers, rows) ==
    [kind |-> "ok", sheet |-> TRUE,
     raw |-> <<BlankRow(Len(headers)), [k \in 1..Len(headers) |-> CellOf(headers[k])]>>
             \o rows]

\* The workbooks posted to /feeddata: price sheets with the columns
\* Kunde_Name and Produktname, one of them with a row without a product
\* name, one with an empty row above such a row, one with the same column
\* name twice, one whose product names stand in a column 'Name', and one
\* workbook for each way of failing.
Workbooks ==
    {PriceSheet(<<"Kunde_Name", "Produktname">>, rs) : rs \in SeqsUpTo(PriceRows, MaxPriceRows)}
    \cup {PriceSheet(<<"Kunde_Name", "Produktname">>, <<<<custA, None>>>>),
          PriceSheet(<<"Kunde_Name", "Produktname">>, <<<<None, None>>, <<custA, None>>>>),
          PriceSheet(<<"Kunde_Name", "Produktname", "Produktname">>,
                     <<<<custA, nBrie, None>>>>),
          PriceSheet(<<"Kunde_Name", "Name">>, <<<<custA, nBrie>>>>),
          PriceSheet(<<"Kunde_Name", "Preis">>, <<<<custA, <<"1">>>>>>),
          PriceSheet(<<"Kunde_Name", "Name", "name">>, <<<<custA, nBrie, nBrie>>>>),
          PriceSheet(<<"Produktname">>, <<<<nBrie>>>>),
          [kind |-> "ok", sheet |-> TRUE, raw |-> <<BlankRow(2), BlankRow(2)>>],
          [kind |-> "ok", sheet |-> TRUE, raw |-> <<>>],
          [kind |-> "ok", sheet |-> FALSE, raw |-> <<>>],
          [kind |-> "no_file", sheet |-> FALSE, raw |-> <<>>],
          [kind |-> "bad_ext", sheet |-> FALSE, raw |-> <<>>]}

\* The grid of the sheet 'Preise' that preise_download (lines 1021-1049)
\* writes with DataFrame.to_excel(index=False): the column names in the
\* first row, below it every row of the table with all its columns, S rows
\* and the record_source column included.
PreiseDownload(table) ==
    <<[k \in 1..Len(table.cols) |-> CellOf(table.cols[k])]>>
    \o [i \in 1..Len(table.rows) |->
          [k \in 1..Len(table.cols) |-> table.rows[i][table.cols[k]]]]

\* Rows (Customer, Name, Synonyms) of synonym sheets.
SynRows ==
    {[cust |-> custA, base |-> bGouda, alias |-> aliasX],
     [cust |-> custA, base |-> nBrie, alias |-> aliasX],
     [cust |-> custA, base |-> bXyz, alias |-> aliasY],
     [cust |-> custB, base |-> bBri, alias |-> aliasY]}

\* The sheets posted to /synonyms/upload: sheets of valid rows, one sheet
\* with a row that has no name, and one sheet for each way of failing.
SynSheets ==
    {[kind |-> "ok", rows |-> rs] : rs \in SeqsUpTo(SynRows, MaxSynRows)}
    \cup {[kind |-> "ok",
           rows |-> <<[cust |-> custA, base |-> <<>>, alias |-> aliasY],
                      [cust |-> custA, base |-> bGouda, alias |-> aliasX]>>]}
    \cup {[kind |-> k, rows |-> <<>>] : k \in {"no_file", "bad_ext", "missing_cols"}}

\* The deployments of the model, [env, jellyfish]: nothing configured, without
\* and with the jellyfish library, and a primary threshold that is no number.
Deployments ==
    {[env |-> [MATCH_THRESHOLD |-> Unset, MATCH_THRESHOLD_RELAXED |-> Unset],
      jellyfish |-> FALSE],
     [env |-> [MATCH_THRESHOLD |-> Unset, MATCH_THRESHOLD_RELAXED |-> Unset],
      jellyfish |-> TRUE],
     [env |-> [MATCH_THRESHOLD |-> "nan", MATCH_THRESHOLD_RELAXED |-> Unset],
      jellyfish |-> FALSE]}

\* No thresholds read yet.
NoThr == [primary |-> Num(-1), relaxed |-> Num(-1), read |-> FALSE]

\* Longest text handed to the normalizer, in characters, apart from the
\* examples.
MaxNormLen == 3

\* The characters of those texts: a capital, an umlaut, a plain letter, the
\* sharp s, a hyphen, a blank and a digit.
NormAlphabet == {"K", "ä", "e", "ß", "-", " ", "1"}

\* Product names as they occur in price lists and synonym sheets.
exKaese == <<"K", "ä", "s", "e", "-", "R", "ä", "u", "c", "h", "e", "r", "w", "ü", "r", "s", "t", "e">>

exKaeseSpelled == <<"k", "a", "e", "s", "e", " ", "r", "a", "e", "u", "c", "h", "e", "r", "w", "u", "e", "r", "s", "t", "e">>

exFraction == <<"B", "r", "i", "e", " ", "1", "_", "4">>

exCapitals == <<"Ä", "Ö", "Ü">>

\* With them the three spellings of a quarter and a chain of digits in two
\* spellings.
NormExamples ==
    {exKaese, exKaeseSpelled, exFraction, exCapitals,
     <<"1", "_", "4">>, <<"1", "-", "4">>, <<"1", "/", "4">>,
     <<"1", "-", "2", "-", "3">>, <<"1", "/", "2", "/", "3">>}

\* The arguments of _normalize_text the model tries: None, every text over
\* NormAlphabet of at most MaxNormLen characters, and the examples.
NormInputs == {None} \cup SeqsUpTo(NormAlphabet, MaxNormLen) \cup NormExamples

----------------------------------------------------------------------------
(* The application: requests on the two tables *)

Init ==
    /\ \E d \in Deployments : env = d.env /\ jellyfish = d.jellyfish
    /\ preise = NoTable
    /\ synonyms = <<>>
    /\ last = NoTrace("none", "")
    /\ nIn = <<>>
    /\ nOut = Pending
    /\ thr = NoThr
    /\ requests = 0
    /\ NoInvoicing
    /\ mIn = <<>>
    /\ mOut = [done |-> {}]

\* One more request is served.
Served == requests < MaxRequests /\ requests' = requests + 1

\* POST /feeddata with a workbook.
PostFeeddata == Served /\ \E f \in Workbooks : FeeddataPost(f)

\* GET /preise/download, then POST /feeddata with the downloaded workbook as
\* it is.
PostDownloaded ==
    /\ Served
    /\ preise.cols # <<>>
    /\ Len(preise.rows) <= MaxTableRows
    /\ FeeddataPost([kind |-> "ok", sheet |-> TRUE, raw |-> PreiseDownload(preise)])

\* GET /preise/download, then POST /feeddata with the downloaded sheet moved
\* one row down, which puts the column names into the second row.
PostShifted ==
    /\ Served
    /\ preise.cols # <<>>
    /\ Len(preise.rows) <= MaxTableRows
    /\ FeeddataPost([kind |-> "ok", sheet |-> TRUE,
                     raw |-> <<BlankRow(Len(preise.cols))>> \o PreiseDownload(preise)])

\* POST /synonyms/upload with a sheet.
PostSynonyms == Served /\ \E f \in SynSheets : SynonymsUpload(f)

Next == PostFeeddata \/ PostDownloaded \/ PostShifted \/ PostSynonyms

Spec == Init /\ [][Next]_vars

----------------------------------------------------------------------------
(* The normalizer on its own: one call of _normalize_text *)

InitNorm ==
    /\ nIn \in NormInputs
    /\ nOut = Pending
    /\ env = [MATCH_THRESHOLD |-> Unset, MATCH_THRESHOLD_RELAXED |-> Unset]
    /\ jellyfish = FALSE
    /\ preise = NoTable
    /\ synonyms = <<>>
    /\ last = NoTrace("none", "")
    /\ thr = NoThr
    /\ requests = 0
    /\ NoInvoicing
    /\ mIn = <<>>
    /\ mOut = [done |-> {}]

\* _normalize_text(nIn) returns or raises.
Normalize ==
    /\ nOut = Pending
    /\ nOut' = NormalizeText(nIn)
    /\ UNCHANGED <<env, jellyfish, preise, synonyms, last, nIn, thr, requests, mIn, mOut,
                 invoicing>>

NextNorm == Normalize

SpecNorm == InitNorm /\ [][NextNorm]_vars

----------------------------------------------------------------------------
(* The thresholds on their own: one call of each getter per environment *)

InitThr ==
    /\ env \in [MATCH_THRESHOLD : EnvSettings, MATCH_THRESHOLD_RELAXED : EnvSettings]
    /\ thr = NoThr
    /\ jellyfish = FALSE
    /\ preise = NoTable
    /\ synonyms = <<>>
    /\ last = NoTrace("none", "")
    /\ nIn = <<>>
    /\ nOut = Pending
    /\ requests = 0
    /\ NoInvoicing
    /\ mIn = <<>>
    /\ mOut = [done |-> {}]

\* get_match_threshold() and get_relaxed_threshold() in the environment env.
ReadThresholds ==
    /\ ~thr.read
    /\ thr' = [primary |-> GetMatchThreshold(env),
               relaxed |-> GetRelaxedThreshold(env),
               read |-> TRUE]
    /\ UNCHANGED <<env, jellyfish, preise, synonyms, last, nIn, nOut, requests, mIn, mOut,
                 invoicing>>

NextThr == ReadThresholds

SpecThr == InitThr /\ [][NextThr]_vars

----------------------------------------------------------------------------
(* The matcher passes on their own: one call of each on a list of rows *)

\* Longest list of rows handed to a pass.
MaxCands == 3

\* The lists of rows of the calls, all of one customer; None is the product
\* name of a row without one.
MatchRows ==
    {[i \in 1..Len(ns) |->
        [Kunde_Name |-> custA, Produktname |-> ns[i], record_source |-> srcP]] :
     ns \in SeqsUpTo({nComteWheel, nGruyereBlock, qComteLaib, nGoudaAlt, nBrie,
                      nBrieBio, None},
                     MaxCands)}

\* A base name and a list of rows; no pass has returned yet.
InitMatch ==
    /\ mIn \in [base_name : {qComteLaib, nComteWheel, bGouda, bBri, bXyz, bGoudaX,
                              qFetaBio},
                 base_rows : MatchRows]
    /\ mOut = [p1 |-> [row |-> NoRow, score |-> 0],
               p2 |-> [row |-> NoRow, score |-> 0], done |-> {}]
    /\ jellyfish \in BOOLEAN
    /\ env = [MATCH_THRESHOLD |-> Unset, MATCH_THRESHOLD_RELAXED |-> Unset]
    /\ preise = NoTable
    /\ synonyms = <<>>
    /\ last = NoTrace("none", "")
    /\ nIn = <<>>
    /\ nOut = Pending
    /\ thr = NoThr
    /\ requests = 0
    /\ NoInvoicing

\* _best_match_base_row(base_name, base_rows, "Produktname") returns.
MatchPass1 ==
    /\ "p1" \notin mOut.done
    /\ mOut' = [mOut EXCEPT !.p1 = BestMatchBaseRow(mIn.base_name, mIn.base_rows,
                                                     "Produktname", jellyfish),
                            !.done = @ \cup {"p1"}]
    /\ UNCHANGED <<env, jellyfish, preise, synonyms, last, nIn, nOut, thr, requests, mIn,
                 invoicing>>

\* _best_match_base_row_relaxed(base_name, base_rows, "Produktname") returns.
MatchPass2 ==
    /\ "p2" \notin mOut.done
    /\ mOut' = [mOut EXCEPT !.p2 = BestMatchBaseRowRelaxed(mIn.base_name, mIn.base_rows,
                                                            "Produktname", jellyfish),
                            !.done = @ \cup {"p2"}]
    /\ UNCHANGED <<env, jellyfish, preise, synonyms, last, nIn, nOut, thr, requests, mIn,
                 invoicing>>

SpecMatch == InitMatch /\ [][MatchPass1 \/ MatchPass2]_vars

----------------------------------------------------------------------------
(* The metrics on their own: one call of each on a pair of texts *)

\* Most words of a text handed to a metric.
MaxWords == 2

\* The texts: at most MaxWords words with a blank between them, the words
\* being a word of two letters, a unit, a word the token map folds, the
\* word it folds to, and a digit.
MetricTexts ==
    {JoinSpace(ws) :
       ws \in SeqsUpTo({<<"a", "b">>, <<"k", "g">>, <<"l", "a", "i", "b">>, w_wheel, <<"5">>},
                       MaxWords)}

\* Two texts; no metric has returned yet.
InitMetric ==
    /\ mIn \in [a : MetricTexts, b : MetricTexts]
    /\ mOut = [s2 |-> 0, s3 |-> 0, done |-> {}]
    /\ jellyfish = FALSE
    /\ env = [MATCH_THRESHOLD |-> Unset, MATCH_THRESHOLD_RELAXED |-> Unset]
    /\ preise = NoTable
    /\ synonyms = <<>>
    /\ last = NoTrace("none", "")
    /\ nIn = <<>>
    /\ nOut = Pending
    /\ thr = NoThr
    /\ requests = 0
    /\ NoInvoicing

\* _token_set_score(a, b) returns.
TokenSetCall ==
    /\ "s2" \notin mOut.done
    /\ mOut' = [mOut EXCEPT !.s2 = TokenSetScore(mIn.a, mIn.b), !.done = @ \cup {"s2"}]
    /\ UNCHANGED <<env, jellyfish, preise, synonyms, last, nIn, nOut, thr, requests, mIn,
                 invoicing>>

\* _trigram_jaccard(a, b) returns.
TrigramCall ==
    /\ "s3" \notin mOut.done
    /\ mOut' = [mOut EXCEPT !.s3 = TrigramJaccard(mIn.a, mIn.b), !.done = @ \cup {"s3"}]
    /\ UNCHANGED <<env, jellyfish, preise, synonyms, last, nIn, nOut, thr, requests, mIn,
                 invoicing>>

SpecMetric == InitMetric /\ [][TokenSetCall \/ TrigramCall]_vars

----------------------------------------------------------------------------
(* find_preise_sheet_name, app.py 555-582, on its own: one call on a workbook *)

RECURSIVE ProbeSheets(_, _)
\* Step 3 of find_preise_sheet_name from sheet i on (lines 570-582).  A sheet
\* is [name, readable, raw]; xls.parse raises on a sheet that is not
\* readable.  Of the first five rows the leading rows without a value are
\* dropped; a sheet that raises or has no row left is passed over
\* ("continue"); the first other sheet is returned when the first row left
\* holds 'Kunde_Name', and otherwise the "return None" of line 582, which
\* stands in the body of the loop, ends the search.  A loop that runs out
\* of sheets returns None as well.
ProbeSheets(sheets, i) ==
    IF i > Len(sheets) THEN None
    ELSE IF ~sheets[i].readable THEN ProbeSheets(sheets, i + 1)
    ELSE LET raw == SubSeq(sheets[i].raw, 1, Min(5, Len(sheets[i].raw)))
             filled == {n \in 1..Len(raw) : \E k \in 1..Len(raw[n]) : raw[n][k] # None}
         IN  IF filled = {} THEN ProbeSheets(sheets, i + 1)
             ELSE LET header_row == raw[CHOOSE n \in filled : \A o \in filled : n <= o]
                  IN  IF \E k \in 1..Len(header_row) :
                            /\ header_row[k] # None
                            /\ Lower(Strip(header_row[k])) = Lower(CellOf("Kunde_Name"))
                      THEN sheets[i].name
                      ELSE None

\* find_preise_sheet_name(xls) on the sheets of the workbook in order: the
\* first sheet named 'preise' (lines 557-559), else the first whose name
\* holds 'preis' (561-564), else what the probe of lines 566-582 gives.
FindPreiseSheetName(sheets) ==
    LET preis == <<"p", "r", "e", "i", "s">>
        named == {i \in 1..Len(sheets) : Lower(Strip(sheets[i].name)) = preis \o <<"e">>}
        Spaced(s) == ReplaceChar(ReplaceChar(Lower(s), "_", <<" ">>), "-", <<" ">>)
        holding == {i \in 1..Len(sheets) :
                      \E j \in 0..(Len(sheets[i].name) - 5) :
                         SubSeq(Spaced(sheets[i].name), j + 1, j + 5) = preis}
    IN  IF named # {} THEN sheets[CHOOSE i \in named : \A o \in named : i <= o].name
        ELSE IF holding # {}
        THEN sheets[CHOOSE i \in holding : \A o \in holding : i <= o].name
        ELSE ProbeSheets(sheets, 1)

\* Most sheets of a workbook.
MaxSheets == 3

\* The workbooks of the calls: up to MaxSheets sheets with different names.
\* The grids: no row; empty rows only; the column names in the first row;
\* one empty row, then 'kunde_name' in small letters between blanks; other
\* column names; a data row above the column names; the column names in the
\* fifth row; the column names in the sixth row; and a sheet that cannot
\* be read.
SheetBooks ==
    LET H == <<CellOf("Kunde_Name"), CellOf("Produktname")>>
        h == <<None, <<" ">> \o Lower(CellOf("Kunde_Name")) \o <<" ">>>>
        N == <<CellOf("Name"), CellOf("Preis")>>
        D == <<custA, nBrie>>
        B == BlankRow(2)
        grids == {<<>>, <<B, B>>, <<H, D>>, <<B, h, D>>, <<N, D>>, <<D, H>>,
                  <<B, B, B, B, H, D>>, <<B, B, B, B, B, H>>}
        names == {<<"S", "h", "e", "e", "t", "1">>, <<"D", "a", "t", "e", "n">>,
                  <<" ", "P", "R", "E", "I", "S", "E">>,
                  <<"A", "b", "-", "P", "r", "e", "i", "s", "_", "2">>}
        sheet == [name : names, readable : {TRUE}, raw : grids]
                 \cup [name : names, readable : {FALSE}, raw : {<<>>}]
    IN  {ss \in SeqsUpTo(sheet, MaxSheets) :
           \A i, j \in 1..Len(ss) : i < j => ss[i].name # ss[j].name}

\* A workbook; find_preise_sheet_name has not returned yet.
InitSheet ==
    /\ mIn \in SheetBooks
    /\ mOut = [name |-> None, done |-> {}]
    /\ jellyfish = FALSE
    /\ env = [MATCH_THRESHOLD |-> Unset, MATCH_THRESHOLD_RELAXED |-> Unset]
    /\ preise = NoTable
    /\ synonyms = <<>>
    /\ last = NoTrace("none", "")
    /\ nIn = <<>>
    /\ nOut = Pending
    /\ thr = NoThr
    /\ requests = 0
    /\ NoInvoicing

\* find_preise_sheet_name(xls) returns.
FindSheet ==
    /\ mOut.done = {}
    /\ mOut' = [name |-> FindPreiseSheetName(mIn), done |-> {"sheet"}]
    /\ UNCHANGED <<env, jellyfish, preise, synonyms, last, nIn, nOut, thr, requests, mIn,
                 invoicing>>

SpecSheet == InitSheet /\ [][FindSheet]_vars


----------------------------------------------------------------------------
(* The invoice flow on its own: drafts, invoices and one-time downloads *)

\* A deployment with or without the two-phase flow; nothing stored yet.
InitDraft ==
    /\ two_phase \in BOOLEAN
    /\ draft_invoices = [d \in DraftIds |-> NoDraft]
    /\ invoices = <<>>
    /\ tmp_files = {}
    /\ reqs = [r \in 1..MaxDownloads |-> IdleReq]
    /\ jellyfish = FALSE
    /\ env = [MATCH_THRESHOLD |-> Unset, MATCH_THRESHOLD_RELAXED |-> Unset]
    /\ preise = NoTable
    /\ synonyms = <<>>
    /\ last = NoTrace("none", "")
    /\ nIn = <<>>
    /\ nOut = Pending
    /\ thr = NoThr
    /\ requests = 0
    /\ mIn = <<>>
    /\ mOut = [done |-> {}]

\* POST /api/generate_invoice.
GenerateInvoice ==
    /\ \E invoice_name \in {<<>>, <<"a", ".", "P", "D", "F">>}, webhook_ok \in BOOLEAN :
          ApiGenerateInvoice(invoice_name, webhook_ok)
    /\ UNCHANGED pricing

\* PUT /api/draft/<draft_id>.
UpdateDraft ==
    /\ \E d \in DraftIds, data \in UpdateData : ApiUpdateDraft(d, data)
    /\ UNCHANGED pricing

\* POST /api/finalize_invoice.
FinalizeInvoice ==
    /\ \E d \in DraftIds, looks_pdf \in BOOLEAN : ApiFinalizeInvoice(d, looks_pdf)
    /\ UNCHANGED pricing

\* GET /download-once/<invoice_id>: a request arrives.
DownloadArrives ==
    /\ \E r \in 1..MaxDownloads, invoice_id \in 1..MaxInvoices : DownloadStart(r, invoice_id)
    /\ UNCHANGED pricing

\* A request that found the copy opens it.
DownloadOpens == (\E r \in 1..MaxDownloads : DownloadSend(r)) /\ UNCHANGED pricing

\* A request that opened the copy removes it and is answered.
DownloadEnds == (\E r \in 1..MaxDownloads : DownloadCleanup(r)) /\ UNCHANGED pricing

\* The requests are served side by side: the steps of different
\* /download-once requests interleave.
NextDraft ==
    \/ GenerateInvoice
    \/ UpdateDraft
    \/ FinalizeInvoice
    \/ DownloadArrives
    \/ DownloadOpens
    \/ DownloadEnds

SpecDraft == InitDraft /\ [][NextDraft]_vars


----------------------------------------------------------------------------
(* Properties of the normalizer, checked under SpecNorm *)

\* A str: neither None nor the mark of a call that raised or is pending.
IsStr(s) == s # None /\ s # Raised /\ s # Pending

\* The spelling of a text with every umlaut written out (ae, oe, ue).
Transliterated(s) ==
    ReplaceChar(ReplaceChar(ReplaceChar(s, "ä", <<"a", "e">>),
                            "ö", <<"o", "e">>), "ü", <<"u", "e">>)

\* C9: a text with umlauts normalizes to the same string as its
\* transliterated spelling (ae, oe, ue); in particular "Käse-Räucherwürste"
\* normalizes like "kaese raeucherwuerste".
UmlautEquivalence ==
    (nOut # Pending /\ nIn # None) => nOut = NormalizeText(Transliterated(nIn))

\* C10: _normalize_text returns a str for every str and for None, it never
\* raises, and the empty string and None give the empty string.
NormalizerTotal ==
    nOut # Pending => (IsStr(nOut) /\ (nIn \in {None, <<>>} => nOut = <<>>))

\* C10, its case: the call with None has returned the empty string.
NormalizedNone == nIn = None /\ nOut = <<>>

\* The text s with "/" for every "_" and "-" that stands between two digits.
Slashed(s) ==
    [i \in 1..Len(s) |->
        IF /\ 1 < i /\ i < Len(s)
           /\ s[i] \in {"_", "-"}
           /\ s[i - 1] \in Digits /\ s[i + 1] \in Digits
        THEN "/" ELSE s[i]]

\* C19: a text normalizes like the text with every "_" or "-" between two
\* digits written as "/", also in a chain of digits such as "1-2-3"; so
\* "1_4", "1-4" and "1/4" normalize to the same string.
FractionsEverywhere ==
    (nOut # Pending /\ nIn # None) => nOut = NormalizeText(Slashed(nIn))

----------------------------------------------------------------------------
(* Properties of the thresholds, checked under SpecThr *)

\* A float within 0..100.
InRange(x) == x.k = "num" /\ 0 <= x.v /\ x.v <= 100000

\* C8: both thresholds are within 0..100 whatever the environment holds; the
\* primary threshold is 80 when MATCH_THRESHOLD is not set, and the relaxed
\* threshold is the primary threshold minus 10, at least 0, when
\* MATCH_THRESHOLD_RELAXED is not set.
ThresholdsInRange ==
    thr.read =>
        /\ InRange(thr.primary)
        /\ InRange(thr.relaxed)
        /\ env.MATCH_THRESHOLD = Unset => thr.primary = Num(80000)
        /\ env.MATCH_THRESHOLD_RELAXED = Unset =>
              thr.relaxed = Num(Max(thr.primary.v - 10000, 0))

----------------------------------------------------------------------------
(* Properties of the requests, checked under Spec *)

\* The columns of the customer and of the product name in the price table.
KundeCol == GetKundeColFromCols(preise.cols)

NameCol == GetProductnameColFromCols(preise.cols)

\* The thresholds of the deployment.
Primary == GetMatchThreshold(env)

Relaxed == GetRelaxedThreshold(env)

\* The last request was a synonyms_upload that reached the matching loop.
UploadReached == last.op = "synonyms_upload" /\ last.response # "400"

\* The last request was a synonyms_upload that stored its definitions.
UploadStored == last.op = "synonyms_upload" /\ last.response = "flash success"

\* The rows of the last request that were accepted as matched, in order.
Accepted == SelectSeq(last.log, LAMBDA e : e.matched)

\* The definitions the last synonyms_upload stored, in order.
NewDefs == SubSeq(synonyms, Len(synonyms) - last.stored + 1, Len(synonyms))

\* The customers of the rows of the last request.
CustomersOfLast == {last.log[i].cust : i \in 1..Len(last.log)}

\* The S rows of the price table.
SRows == SelectSeq(preise.rows, LAMBDA r : r["record_source"] = srcS)

\* What the two passes return for a row of the last request.
FirstPass(e) == BestMatchBaseRow(e.base, e.pool, NameCol, jellyfish)

SecondPass(e) == BestMatchBaseRowRelaxed(e.base, e.pool, NameCol, jellyfish)

\* C1: a row of synonyms_upload or of the rebuild is accepted only if its
\* pass-1 best score is at least the primary threshold or its pass-2 best
\* score is at least the relaxed threshold; every other row is counted as
\* unmatched and gets no S row.
TwoPassAcceptance ==
    /\ \A i \in 1..Len(last.log) :
          last.log[i].matched =>
              \/ FloatGe(Num(FirstPass(last.log[i]).score), Primary)
              \/ FloatGe(Num(SecondPass(last.log[i]).score), Relaxed)
    /\ last.unmatched = Len(last.log) - Len(Accepted)
    /\ last.response = "flash success" => last.stored = Len(Accepted)

\* The rows of the last request that failed pass 1 and passed pass 2.
FailedThenPassed(e) ==
    /\ e.pool # <<>>
    /\ FloatLt(Num(FirstPass(e).score), Primary)
    /\ FloatGe(Num(SecondPass(e).score), Relaxed)

\* C2: a row that fails pass 1 and passes pass 2 is accepted, and its
\* definition holds the pass-2 score and the name of the pass-2 winner.
RelaxedScorePersisted ==
    UploadStored =>
        /\ \A i \in 1..Len(last.log) :
              FailedThenPassed(last.log[i]) => last.log[i].matched
        /\ Len(NewDefs) = Len(Accepted)
        /\ \A k \in 1..Len(Accepted) :
              FailedThenPassed(Accepted[k]) =>
                  /\ NewDefs[k].match_score = SecondPass(Accepted[k]).score
                  /\ NewDefs[k].Name = CandName(SecondPass(Accepted[k]).row, NameCol)

\* C2, its case: a stored definition whose row failed pass 1, passed pass 2,
\* and has a pass-2 score that differs from its pass-1 score.
RelaxedScoreStored ==
    /\ UploadStored
    /\ \E k \in 1..Len(Accepted) :
          /\ FailedThenPassed(Accepted[k])
          /\ SecondPass(Accepted[k]).score # FirstPass(Accepted[k]).score
          /\ NewDefs[k].match_score = SecondPass(Accepted[k]).score

\* The candidates of a row of the last request that have a name.
Named(e) == {r \in Range(e.pool) : Truthy(r[NameCol])}

\* A row of the last request whose name shares no token with any candidate
\* and that both passes scored below their thresholds.
BelowBoth(e) ==
    /\ e.pool # <<>>
    /\ \A r \in Named(e) : ~Metrics(e.base, r[NameCol]).shares_anchor
    /\ e.relaxed
    /\ FloatLt(Num(e.p1.score), Primary)
    /\ FloatLt(Num(e.p2.score), Relaxed)

\* C3 as stated: for a row that shares no token with any candidate and
\* scores below both thresholds, the matchers return a null row with the
\* best score, and the row is counted as unmatched.
UnmatchedReturnsNull ==
    \A i \in 1..Len(last.log) :
        BelowBoth(last.log[i]) =>
            /\ last.log[i].p1.row = NoRow
            /\ last.log[i].p2.row = NoRow
            /\ ~last.log[i].matched

\* C3 as amended: for such a row the matchers return the best-scoring
\* candidate with its score, and a null row with -1.0 only when no candidate
\* has a name; the caller counts the row as unmatched.
UnmatchedReturnsBest ==
    /\ \A i \in 1..Len(last.log) :
          BelowBoth(last.log[i]) =>
              /\ ~last.log[i].matched
              /\ Named(last.log[i]) = {} =>
                    /\ last.log[i].p1 = [row |-> NoRow, score |-> -1000]
                    /\ last.log[i].p2 = [row |-> NoRow, score |-> -1000]
              /\ Named(last.log[i]) # {} =>
                    /\ last.log[i].p1.row \in Named(last.log[i])
                    /\ last.log[i].p2.row \in Named(last.log[i])
                    /\ \A r \in Named(last.log[i]) :
                          /\ Pass1Score(Metrics(last.log[i].base, r[NameCol]), jellyfish)
                                <= last.log[i].p1.score
                          /\ Pass2Score(Metrics(last.log[i].base, r[NameCol]), jellyfish)
                                <= last.log[i].p2.score
    /\ last.unmatched = Len(last.log) - Len(Accepted)

\* C3, its case: a row below both thresholds for which the matchers returned
\* a candidate, counted as unmatched.
UnmatchedWithCandidate ==
    \E i \in 1..Len(last.log) :
        /\ BelowBoth(last.log[i])
        /\ last.log[i].p1.row # NoRow
        /\ last.log[i].p2.row # NoRow
        /\ ~last.log[i].matched
        /\ last.unmatched >= 1

\* C4: a synonyms_upload that reaches the matching loop processes every
\* valid row of the sheet; the definitions stored and the rows counted as
\* unmatched add up to the valid rows, and the price table holds one S row
\* per stored definition.
BatchAccounted ==
    UploadReached =>
        /\ Len(last.log) = Len(last.input)
        /\ \A i \in 1..Len(last.log) :
              /\ last.log[i].cust = last.input[i].cust
              /\ last.log[i].base = last.input[i].base
              /\ last.log[i].alias = last.input[i].alias
        /\ last.stored + last.unmatched = Len(last.input)
        /\ last.stored =
              Len(SelectSeq(synonyms, LAMBDA d : d.Customer \in CustomersOfLast))
        /\ last.stored =
              Len(SelectSeq(SRows, LAMBDA r : r[KundeCol] \in CustomersOfLast))

\* C4, its case: an upload that stored one row and counted another as
\* unmatched.
BatchWithUnmatched == UploadReached /\ last.stored >= 1 /\ last.unmatched >= 1

\* C5: a row for a customer is scored only against price rows of that
\* customer, the row it is matched to is of that customer, and the S row
\* made for it carries that customer.
BlockingPerCustomer ==
    \A i \in 1..Len(last.log) :
        /\ \A k \in 1..Len(last.log[i].pool) :
              last.log[i].pool[k][KundeCol] = last.log[i].cust
        /\ last.log[i].matched =>
              /\ last.log[i].best_row[KundeCol] = last.log[i].cust
              /\ \E k \in 1..Len(SRows) :
                    /\ SRows[k][KundeCol] = last.log[i].cust
                    /\ SRows[k][NameCol] = last.log[i].alias

\* C5, its case: a matched row of one customer while the price table holds
\* rows of another customer.
MatchedBesideOtherCustomer ==
    \E i \in 1..Len(last.log) :
        /\ last.log[i].matched
        /\ \E k \in 1..Len(preise.rows) :
              preise.rows[k][KundeCol] # last.log[i].cust

\* C6: no customer has two definitions with the same alias and different
\* canonical names.
OneCanonicalPerAlias ==
    \A i, j \in 1..Len(synonyms) :
        (synonyms[i].Customer = synonyms[j].Customer
         /\ synonyms[i].Synonyms = synonyms[j].Synonyms)
            => synonyms[i].Name = synonyms[j].Name

\* C7: a definition stored by synonyms_upload has the customer and the alias
\* of its row, the product name of the matched price row, and a score within
\* 0..100.
PersistedDefinition ==
    UploadStored =>
        /\ Len(NewDefs) = Len(Accepted)
        /\ \A k \in 1..Len(Accepted) :
              /\ NewDefs[k].Customer = Accepted[k].cust
              /\ NewDefs[k].Synonyms = Accepted[k].alias
              /\ Accepted[k].best_row \in Named(Accepted[k])
              /\ NewDefs[k].Name = Accepted[k].best_row[NameCol]
              /\ 0 <= NewDefs[k].match_score
              /\ NewDefs[k].match_score <= 100000

\* C7, its case: a stored definition whose name is the product name of the
\* price row and differs from the name in the sheet.
CanonicalNameStored ==
    /\ UploadStored
    /\ \E k \in 1..Len(Accepted) :
          /\ NewDefs[k].Name = Accepted[k].best_row[NameCol]
          /\ NewDefs[k].Name # Accepted[k].base

----------------------------------------------------------------------------
(* The matcher passes and the metrics on their own *)

\* The product names of the rows of the call, in order.
CallNames == [i \in 1..Len(mIn.base_rows) |-> mIn.base_rows[i].Produktname]

\* The first pass has returned for "Comté Laib 2kg" against the rows
\* "Comté Wheel 2kg", "Gruyère Block 1kg".
ComteCall ==
    /\ "p1" \in mOut.done
    /\ mIn.base_name = qComteLaib
    /\ CallNames = <<nComteWheel, nGruyereBlock>>

\* C11: for that query and those candidates the first pass returns the
\* first candidate with a score of at least 80, the token sets of the query
\* and of the first candidate being equal.
ComteLaibMatchesWheel ==
    ComteCall =>
        /\ mOut.p1.row = mIn.base_rows[1]
        /\ mOut.p1.score >= 80000
        /\ Tokenize(qComteLaib) = Tokenize(nComteWheel)

\* The call of C11 has returned the wheel.
ComteLaibMatched == ComteCall /\ mOut.p1.row.Produktname = nComteWheel

----------------------------------------------------------------------------
(* Imports of price sheets *)

\* The last request was a feeddata_post that imported its sheet.
Imported == last.op = "feeddata_post" /\ last.response = "flash success"

\* The rows insert_pricing_rows stored: those before the rows the rebuild
\* added.
ImportedRows == SubSeq(preise.rows, 1, Len(preise.rows) - last.stored)

\* The data rows of the sheet that was posted.
SheetRows == SubSeq(last.sheet, 3, Len(last.sheet))

FilledRows ==
    SelectSeq(SheetRows, LAMBDA r : \E k \in 1..Len(r) : r[k] # None /\ Strip(r[k]) # <<>>)

\* The cells of the header row that name a column of the table: those with
\* a name that no later cell repeats.
NamingCells ==
    {k \in 1..Len(last.sheet[2]) :
        /\ last.sheet[2][k] # None
        /\ \A j \in (k + 1)..Len(last.sheet[2]) : last.sheet[2][j] # last.sheet[2][k]}

----------------------------------------------------------------------------
(* The winner of a pass *)

\* The rows of the call that have a product name.
NamedRows == {i \in 1..Len(CallNames) : Truthy(CallNames[i])}

\* The score of row i of the call in the first and in the relaxed pass: what
\* the pass returns for that row alone.
Score1(i) ==
    BestMatchBaseRow(mIn.base_name, <<mIn.base_rows[i]>>, "Produktname", jellyfish).score

Score2(i) ==
    BestMatchBaseRowRelaxed(mIn.base_name, <<mIn.base_rows[i]>>, "Produktname", jellyfish).score

\* C14: each pass returns, with its score, the first of the rows with a name
\* whose score no other row with a name exceeds.
FirstHighestWins ==
    /\ ("p1" \in mOut.done /\ NamedRows # {}) =>
          \E w \in NamedRows :
             /\ \A i \in NamedRows : Score1(i) <= Score1(w)
             /\ \A i \in NamedRows : i < w => Score1(i) < Score1(w)
             /\ mOut.p1 = [row |-> mIn.base_rows[w], score |-> Score1(w)]
    /\ ("p2" \in mOut.done /\ NamedRows # {}) =>
          \E w \in NamedRows :
             /\ \A i \in NamedRows : Score2(i) <= Score2(w)
             /\ \A i \in NamedRows : i < w => Score2(i) < Score2(w)
             /\ mOut.p2 = [row |-> mIn.base_rows[w], score |-> Score2(w)]

\* Both passes returned the first of two rows with different names and the
\* same highest score, a row without a name standing before them.
TieWonByFirst ==
    /\ mOut.done = {"p1", "p2"}
    /\ \E w, i \in NamedRows :
          /\ w < i
          /\ 1 \notin NamedRows
          /\ CallNames[w] # CallNames[i]
          /\ Score1(w) = Score1(i) /\ Score1(w) > 0 /\ mOut.p1.row = mIn.base_rows[w]
          /\ Score2(w) = Score2(i) /\ mOut.p2.row = mIn.base_rows[w]
          /\ mOut.p1.row # mIn.base_rows[i]

----------------------------------------------------------------------------
(* The score of one candidate *)

\* A pass was called with one row, which has a name.
OneCandidate == Len(CallNames) = 1 /\ Truthy(CallNames[1])

\* The highest of the metrics of the base name and that candidate.
Combined ==
    LET m == Metrics(mIn.base_name, CallNames[1])
    IN  Max4(m.s1, m.s2, m.s3, IF jellyfish THEN m.jw ELSE 0)

\* The words of the normalized text s after synonym folding.
FoldedWords(s) ==
    LET words == Split(NormalizeText(s))
    IN  {TokenMapGet(words[i]) : i \in 1..Len(words)}

\* Those of them that have more than one character and are no stopword.
AnchorWords(s) == {w \in FoldedWords(s) : Len(w) > 1 /\ w \notin StopWords}

\* C15 as stated: the first pass multiplies the highest metric by 0.9
\* exactly when the base name and the candidate share no word after
\* normalization and synonym folding.
PenaltyIffNoSharedWord ==
    (OneCandidate /\ "p1" \in mOut.done) =>
        mOut.p1.score =
            IF FoldedWords(mIn.base_name) \cap FoldedWords(CallNames[1]) = {}
            THEN (Combined * 9) \div 10
            ELSE Combined

\* C15: the first pass multiplies the highest metric by 0.9 exactly when the
\* base name and the candidate share no word of more than one character
\* that is no stopword, after normalization and synonym folding.
PenaltyIffNoSharedToken ==
    (OneCandidate /\ "p1" \in mOut.done) =>
        mOut.p1.score =
            IF AnchorWords(mIn.base_name) \cap AnchorWords(CallNames[1]) = {}
            THEN (Combined * 9) \div 10
            ELSE Combined

\* The first pass penalized a candidate that shares only a stopword with the
\* base name.
PenalizedDespiteStopword ==
    /\ OneCandidate /\ "p1" \in mOut.done
    /\ FoldedWords(mIn.base_name) \cap FoldedWords(CallNames[1]) # {}
    /\ AnchorWords(mIn.base_name) \cap AnchorWords(CallNames[1]) = {}
    /\ Combined > 0
    /\ mOut.p1.score = (Combined * 9) \div 10

\* The text x occurs in the text y.
Within(x, y) == \E i \in 0..(Len(y) - Len(x)) : SubSeq(y, i + 1, i + Len(x)) = x

\* One of the normalized base name and the normalized candidate occurs in
\* the other.
Contained ==
    \/ Within(NormalizeText(mIn.base_name), NormalizeText(CallNames[1]))
    \/ Within(NormalizeText(CallNames[1]), NormalizeText(mIn.base_name))

\* C16: the relaxed pass returns the highest of the metrics, without a
\* penalty, raised to at least 90 exactly when one normalized name occurs in
\* the other and the token-set score is at least 60.
ContainmentBoost ==
    (OneCandidate /\ "p2" \in mOut.done) =>
        mOut.p2.score =
            IF Contained /\ TokenSetScore(mIn.base_name, CallNames[1]) >= 60000
            THEN Max(Combined, 90000)
            ELSE Combined

\* The relaxed pass raised a score below 90 to 90.
BoostedTo90 ==
    /\ OneCandidate /\ "p2" \in mOut.done
    /\ Contained
    /\ TokenSetScore(mIn.base_name, CallNames[1]) >= 60000
    /\ Combined < 90000
    /\ mOut.p2.score = 90000

----------------------------------------------------------------------------
(* The metrics *)

\* The words of s after normalization and synonym folding that are no
\* stopwords.
WordsKept(s) == {w \in FoldedWords(s) : w \notin StopWords}

\* The score x (in thousandths) is 100 * n / d rounded to two decimals.
IsPercent(x, n, d) ==
    /\ x % 10 = 0
    /\ x * d - 100000 * n <= 5 * d
    /\ 100000 * n - x * d <= 5 * d

\* C17 as stated: the token-set score is 100 * 2|A n B| / (|A| + |B|) for the
\* sets A and B of the words left after synonym folding and stopword
\* removal, 0 when one of them is empty, and within 0..100.
DiceOverWordsKept ==
    "s2" \in mOut.done =>
        LET A == WordsKept(mIn.a)
            B == WordsKept(mIn.b)
        IN  /\ mOut.s2 >= 0 /\ mOut.s2 <= 100000
            /\ IF A = {} \/ B = {} THEN mOut.s2 = 0
               ELSE IsPercent(mOut.s2, 2 * Cardinality(A \cap B),
                              Cardinality(A) + Cardinality(B))

\* C17: the token-set score is 100 * 2|A n B| / (|A| + |B|), rounded to two
\* decimals, for the sets A and B of the words of more than one character
\* left after synonym folding and stopword removal, 0 when one of them is
\* empty, and within 0..100.
DiceOverTokens ==
    "s2" \in mOut.done =>
        LET A == AnchorWords(mIn.a)
            B == AnchorWords(mIn.b)
        IN  /\ mOut.s2 >= 0 /\ mOut.s2 <= 100000
            /\ IF A = {} \/ B = {} THEN mOut.s2 = 0
               ELSE IsPercent(mOut.s2, 2 * Cardinality(A \cap B),
                              Cardinality(A) + Cardinality(B))

\* A score of 66.67 for a text whose word of one character does not count:
\* one shared token of three.
DiceWithoutShortWord ==
    /\ "s2" \in mOut.done
    /\ WordsKept(mIn.a) # AnchorWords(mIn.a)
    /\ Cardinality(AnchorWords(mIn.a)) = 1
    /\ Cardinality(AnchorWords(mIn.b)) = 2
    /\ mOut.s2 = 66670

\* The normalized text s without its blanks.
Squeezed(s) == SelectSeq(NormalizeText(s), LAMBDA ch : ch # " ")

\* The grams of s: the runs of three characters of Squeezed(s), or
\* Squeezed(s) itself when it has one or two characters.
GramSet(s) ==
    LET t == Squeezed(s)
    IN  IF Len(t) >= 3 THEN {<<t[i], t[i + 1], t[i + 2]>> : i \in 1..(Len(t) - 2)}
        ELSE IF Len(t) >= 1 THEN {t}
        ELSE {}

\* C18: the trigram score is 100 * |A n B| / |A u B|, rounded to two
\* decimals, for the sets A and B of the runs of three characters of the
\* normalized texts without blanks, such a text of fewer than three
\* characters being its own single gram, and 0 when one of the sets is
\* empty.
JaccardOverGrams ==
    "s3" \in mOut.done =>
        LET A == GramSet(mIn.a)
            B == GramSet(mIn.b)
        IN  IF A = {} \/ B = {} THEN mOut.s3 = 0
            ELSE IsPercent(mOut.s3, Cardinality(A \cap B), Cardinality(A \cup B))

\* A text of three characters, two without its blank, had the score 100:
\* the two characters are its single gram.
ShortTextIsItsGram ==
    /\ "s3" \in mOut.done
    /\ Len(NormalizeText(mIn.a)) = 3
    /\ Len(Squeezed(mIn.a)) = 2
    /\ mOut.s3 = 100000

----------------------------------------------------------------------------
(* Definitions across imports *)

\* The P rows of a customer in the price table.
PRowsOf(cust) ==
    SelectSeq(preise.rows, LAMBDA r : r[KundeCol] = cust /\ r["record_source"] = srcP)

\* The stored definition d has a customer, a name and an alias, and its name
\* matches a P row of its customer: in the first pass at the primary
\* threshold or in the relaxed pass at the relaxed threshold.
DefMatches(d) ==
    /\ Truthy(d.Customer) /\ Truthy(d.Name) /\ Truthy(d.Synonyms)
    /\ KundeCol # NoCol /\ NameCol # NoCol
    /\ LET p1 == BestMatchBaseRow(d.Name, PRowsOf(d.Customer), NameCol, jellyfish)
           p2 == BestMatchBaseRowRelaxed(d.Name, PRowsOf(d.Customer), NameCol, jellyfish)
       IN  \/ p1.row # NoRow /\ FloatGe(Num(p1.score), Primary)
           \/ p2.row # NoRow /\ FloatGe(Num(p2.score), Relaxed)

\* C20: after a feeddata_post that imported its sheet, the rows of the table
\* before the rebuilt S rows are the imported rows and are P rows, the
\* stored definitions are those from before the request, and for every
\* stored definition that matches a P row of its customer the table has as
\* many S rows of that customer with the alias as product name as there are
\* matching definitions of that customer with that alias: one for each.
DefinitionsSurviveImport ==
    Imported =>
        /\ synonyms = last.input
        /\ \A i \in 1..Len(ImportedRows) : ImportedRows[i]["record_source"] = srcP
        /\ \A i \in 1..Len(synonyms) :
              DefMatches(synonyms[i]) =>
                  Cardinality({k \in 1..Len(preise.rows) :
                                 /\ preise.rows[k]["record_source"] = srcS
                                 /\ preise.rows[k][KundeCol] = synonyms[i].Customer
                                 /\ preise.rows[k][NameCol] = synonyms[i].Synonyms})
                  = Cardinality({j \in 1..Len(synonyms) :
                                   /\ DefMatches(synonyms[j])
                                   /\ synonyms[j].Customer = synonyms[i].Customer
                                   /\ synonyms[j].Synonyms = synonyms[i].Synonyms})

----------------------------------------------------------------------------
(* The two passes against each other *)

\* Thresholds a row can be held against, in thousandths: 0, 1, ..., 100.
WholeThresholds == {1000 * n : n \in 0..100}

\* C21: the relaxed pass never scores lower than the first pass: for every
\* row with a name the pass-2 score is at least the pass-1 score, the best
\* score of pass 2 over the rows of a call is at least that of pass 1, and a
\* best score of pass 1 that reaches a threshold T is followed by a best
\* score of pass 2 that reaches T.
RelaxedNeverLower ==
    /\ \A i \in NamedRows : Score2(i) >= Score1(i)
    /\ mOut.done = {"p1", "p2"} =>
          /\ mOut.p2.score >= mOut.p1.score
          /\ \A T \in WholeThresholds :
                mOut.p1.score >= T => mOut.p2.score >= T

\* Both passes ran over two rows with names; one row scores higher in the
\* relaxed pass (its penalty is gone or it was raised to 90), the best score
\* of pass 1 reaches 70 and the best score of pass 2 is higher still.
RelaxedStrictlyHigher ==
    /\ mOut.done = {"p1", "p2"}
    /\ Cardinality(NamedRows) >= 2
    /\ \E i \in NamedRows : Score2(i) > Score1(i)
    /\ mOut.p1.score >= 70000
    /\ mOut.p2.score > mOut.p1.score

----------------------------------------------------------------------------
(* Sheet discovery, checked under SpecSheet *)

\* The sheet holds 'Kunde_Name' (trimmed, without regard to case) in the
\* first of its first five rows that has a value.
HasKundeHeader(s) ==
    /\ s.readable
    /\ \E n \in 1..Min(5, Len(s.raw)) :
          /\ \E k \in 1..Len(s.raw[n]) : s.raw[n][k] # None
          /\ \A o \in 1..(n - 1) : \A k \in 1..Len(s.raw[o]) : s.raw[o][k] = None
          /\ \E k \in 1..Len(s.raw[n]) :
                /\ s.raw[n][k] # None
                /\ Lower(Strip(s.raw[n][k])) = <<"k", "u", "n", "d", "e", "_", "n", "a", "m", "e">>

\* No sheet of the workbook is named 'Preise' or has 'preis' in its name.
NoPreisName ==
    \A i \in 1..Len(mIn) :
       \A j \in 0..(Len(mIn[i].name) - 5) :
          SubSeq(Lower(mIn[i].name), j + 1, j + 5) # <<"p", "r", "e", "i", "s">>

\* C22: when no sheet is named 'Preise' and no sheet name holds 'preis',
\* find_preise_sheet_name returns the first sheet in workbook order whose
\* first row with a value, within the first five rows, holds 'Kunde_Name',
\* and None only when the workbook has no such sheet.
FallbackFindsFirstHeader ==
    (mOut.done # {} /\ NoPreisName) =>
        IF \E i \in 1..Len(mIn) : HasKundeHeader(mIn[i])
        THEN \E i \in 1..Len(mIn) :
                /\ HasKundeHeader(mIn[i])
                /\ \A o \in 1..(i - 1) : ~HasKundeHeader(mIn[o])
                /\ mOut.name = mIn[i].name
        ELSE mOut.name = None

----------------------------------------------------------------------------
(* Requests that end in an error, checked under Spec *)

\* The S rows of a table, in rowid order.
SRowsOf(table) ==
    IF "record_source" \in Range(table.cols)
    THEN SelectSeq(table.rows, LAMBDA r : r["record_source"] = srcS)
    ELSE <<>>

\* C23: a failed synonyms upload changes nothing: when synonyms_upload ends
\* in an error, the synonyms table and the S rows of preise are what they
\* were before the request.
FailedUploadChangesNothing ==
    [][(last'.op = "synonyms_upload" /\ last'.response # "flash success")
          => (synonyms' = synonyms /\ SRowsOf(preise') = SRowsOf(preise))]_vars

\* C24: a failed price import keeps the previous data: when feeddata_post
\* ends in an error, the preise table holds the rows it held before the
\* request.
FailedImportKeepsData ==
    [][(last'.op = "feeddata_post" /\ last'.response # "flash success")
          => preise'.rows = preise.rows]_vars

----------------------------------------------------------------------------
(* What a synonyms upload touches, checked under Spec *)

\* The rows of a table that belong to customer c, in rowid order; every row
\* of a table without a customer column.
RowsOfCustomer(table, c) ==
    IF GetKundeColFromCols(table.cols) = NoCol THEN table.rows
    ELSE SelectSeq(table.rows, LAMBDA r : r[GetKundeColFromCols(table.cols)] = c)

\* The P rows of a table, in rowid order.
PRowsIn(table) ==
    IF "record_source" \in Range(table.cols)
    THEN SelectSeq(table.rows, LAMBDA r : r["record_source"] = srcP)
    ELSE <<>>

\* The stored definitions of customer c, in order.
DefsOfCustomer(defs, c) == SelectSeq(defs, LAMBDA d : d.Customer = c)

\* C25: synonyms_upload only touches the customers named in the uploaded
\* file: the definitions and the preise rows (P and S) of every other
\* customer are what they were before the request, and no P row of any
\* customer is changed or deleted.
UploadTouchesOnlyItsCustomers ==
    [][last'.op = "synonyms_upload" =>
          /\ \A c \in {custA, custB, None} \ {last'.input[i].cust : i \in 1..Len(last'.input)} :
                /\ DefsOfCustomer(synonyms', c) = DefsOfCustomer(synonyms, c)
                /\ RowsOfCustomer(preise', c) = RowsOfCustomer(preise, c)
          /\ PRowsIn(preise') = PRowsIn(preise)]_vars

\* An upload for customer A alone stored a definition and an S row while
\* customer B has a P row, an S row and a definition.
UploadedBesideOtherCustomer ==
    /\ last.op = "synonyms_upload" /\ last.response = "flash success"
    /\ last.stored >= 1
    /\ {last.input[i].cust : i \in 1..Len(last.input)} = {custA}
    /\ DefsOfCustomer(synonyms, custB) # <<>>
    /\ \E i, j \in 1..Len(RowsOfCustomer(preise, custB)) :
          /\ RowsOfCustomer(preise, custB)[i]["record_source"] = srcS
          /\ RowsOfCustomer(preise, custB)[j]["record_source"] = srcP

----------------------------------------------------------------------------
(* The same upload twice, checked under Spec *)

\* C26: synonyms_upload is idempotent: an upload of the rows that the
\* request before it uploaded, the P rows being unchanged in between, leaves
\* the S rows of preise and the definitions (customer, name, alias, score)
\* as the first upload left them, none of them twice.
UploadIdempotent ==
    [][(last.op = "synonyms_upload" /\ last'.op = "synonyms_upload"
        /\ last'.input = last.input)
          => (synonyms' = synonyms /\ preise' = preise)]_vars

\* A sheet was uploaded twice in a row; the second upload stored a
\* definition and an S row for it, and the tables hold one definition and
\* one S row for each row of the sheet.
UploadedTwice ==
    /\ last.op = "synonyms_upload" /\ last.response = "flash success"
    /\ last.repeat
    /\ last.stored >= 1
    /\ Len(synonyms) = last.stored
    /\ Len(SRowsOf(preise)) = last.stored

----------------------------------------------------------------------------
(* The pricing payload of a client, checked under Spec *)

\* C29: the pricing payload has no duplicated alias rows: for every client,
\* in every state the imports and uploads lead to, the list that
\* build_pricing_json_for_client builds starts with the client's P rows and
\* nothing else from the table, and after them holds each alias row (a
\* canonical row whose name is replaced by an alias) at most once, whatever
\* its record_source.
PayloadWithoutDuplicates ==
    \A c \in {custA, custB} :
       LET out == BuildPricingJsonForClient(preise, synonyms, c)
           p == SelectSeq(RowsOfCustomer(preise, c), LAMBDA r : r["record_source"] = srcP)
           Plain(r) == [k \in DOMAIN r \ {"record_source"} |-> r[k]]
       IN  (preise.cols # <<>> /\ GetKundeColFromCols(preise.cols) # NoCol) =>
              /\ Len(out) >= Len(p)
              /\ SubSeq(out, 1, Len(p)) = p
              /\ \A i, j \in (Len(p) + 1)..Len(out) :
                    (i < j /\ out[i]["record_source"] = srcS) => Plain(out[i]) # Plain(out[j])

----------------------------------------------------------------------------
(* Drafts, invoices and one-time downloads, checked under SpecDraft *)

\* The invoice records made from draft d.
InvoicesOf(d) == {i \in 1..Len(invoices) : invoices[i].draft = d}

\* C27: each draft yields at most one invoice: whatever calls of
\* api_finalize_invoice are made for a draft_id, at most one invoice record
\* (with its archived PDF) is made from it; a call on a draft whose status
\* is 'finalized' creates nothing; and the status of a draft never goes from
\* 'finalized' back to 'draft'.
OneInvoicePerDraft ==
    /\ [](\A d \in DraftIds : Cardinality(InvoicesOf(d)) <= 1)
    /\ [][\A d \in DraftIds :
             draft_invoices[d].status = "finalized" =>
                /\ draft_invoices'[d].status = "finalized"
                /\ Cardinality({i \in 1..Len(invoices') : invoices'[i].draft = d})
                   = Cardinality(InvoicesOf(d))]_vars

\* C28: a finalized draft is immutable: once the status of a draft is
\* 'finalized', api_update_draft leaves its payload_json, invoice_name,
\* title, header, footer and currency_exchange as they are.
FinalizedDraftImmutable ==
    [][\A d \in DraftIds :
          draft_invoices[d].status = "finalized" =>
             /\ draft_invoices'[d].payload_json = draft_invoices[d].payload_json
             /\ draft_invoices'[d].invoice_name = draft_invoices[d].invoice_name
             /\ draft_invoices'[d].title_invoice = draft_invoices[d].title_invoice
             /\ draft_invoices'[d].header_invoice = draft_invoices[d].header_invoice
             /\ draft_invoices'[d].footer_invoice = draft_invoices[d].footer_invoice
             /\ draft_invoices'[d].currency_exchange = draft_invoices[d].currency_exchange]_vars

\* C30: the one-time download is served at most once: for every invoice id,
\* however the /download-once requests interleave, at most one request is
\* answered with the temporary PDF, and every request that starts after one
\* was answered with it ends with 404.
ServedAtMostOnce ==
    /\ \A id \in 1..MaxInvoices :
          Cardinality({r \in DOMAIN reqs :
                         reqs[r].invoice_id = id /\ reqs[r].result = "pdf"}) <= 1
    /\ \A r \in DOMAIN reqs :
          (reqs[r].late /\ reqs[r].pc = "done") => reqs[r].result = "404"

====
